---- MODULE Spec2Model ----
(***************************************************************************)
(* Model of infini_converter's FileProcessor (src/src/infini_converter/    *)
(* processor.py): the batch orchestrator (process_files_batch,             *)
(* process_files_async, stop_processing, get_processing_status), the       *)
(* control flow of process_file, and the two reader threads that drain    *)
(* the child's stdout and stderr.                                          *)
(*                                                                         *)
(* Three groups of variables, one per specification family:                *)
(*   Spec / SpecSeq / FairSeq : the orchestrator, statement by statement   *)
(*   SpecFile                 : one call of process_file                   *)
(*   SpecPipe / FairPipe      : one child, its two pipes, the readers      *)
(***************************************************************************)
EXTENDS Integers, Sequences, FiniteSets, TLC

(* ------------------------------ bounds -------------------------------- *)

\* worker threads (process_files_async calls) that can exist at once
MaxThreads == 2

\* files queued on the processor at a time, over all running batches
MaxFiles == 3

\* lines the child writes to one stream
MaxLines == 2

\* lines one pipe buffers before a write blocks
PipeCap == 1

\* longest command template, in tokens
MaxTemplate == 3

\* largest number in an output line, in steps of 75
MaxNumber == 2

\* longest output line, in tokens
MaxLineLen == 4

Workers == 1..MaxThreads

Streams == {"stdout", "stderr"}

(* --------------------------- program values --------------------------- *)

\* hasattr(self, 'total_files') is false until the first batch sets it
NoAttr == -1

\* a result record built by an early return or an except branch has no
\* "return_code" key
NoCode == -1

NoResult == [success |-> FALSE, error |-> "none", input_file |-> 0, return_code |-> NoCode]

NoStop == -1

ErrNoProgram == "No processing program specified"

ErrNotFound == "Input file not found"

ErrDirPerm == "No write permission for output directory"

ErrFilePerm == "No write permission for output file"

ErrInvalidPath == "Invalid output path"

ErrTimeout == "Processing timed out"

ErrException == "exception"

VARIABLES
  \* FileProcessor fields (processor.py:12-22, 611)
  is_processing, should_stop, processed_count, failed_count, total_files,
  current_file, processing_results,
  \* per worker thread: position, the call's locals, the callback's record
  pc, nfiles, i, results, result, child, cb_calls,
  \* history: number of files a batch had started when stop_processing ran
  stop_at,
  \* one process_file call (SpecFile): position, what the call meets, the
  \* record it returns, children started, the local cmd_string, the local
  \* output_file, the files at the input and output paths, the processor's
  \* own file operations (history), the record's path and existence keys
  f_pc, f_in, f_result, f_launched, f_cmd_string,
  f_output_file, f_files, f_ops, f_keys,
  \* the command builders on one configuration (SpecCmd): position, the
  \* processor's settings and the input, what build_command returned, what
  \* build_command_string returned
  c_pc, c_cfg, c_cmd, c_string,
  \* one reader thread on one line of output (SpecLine): position, the
  \* stream, the line, the local progress_info, the callback's arguments
  l_pc, l_stream, l_line, progress_info, cb_progress,
  \* one child and its pipes (SpecPipe)
  p_main, p_child, p_next, out_left, pipe, reader, lines_read, p_output,
  \* the GUI around one run (SpecGui): position, the settings and the files
  \* chosen, the files in the output directory, the stored and the fresh
  \* listing, the loop index, the results, the files found new, the lines of
  \* the output list
  g_pc, g_cfg, g_dir, g_pre, g_post, g_i, g_results, new_files,
  output_listbox,
  \* the environment of one child (SpecEnv): position, the env_vars setting,
  \* the env argument handed to Popen, the environment the child gets
  e_pc, e_env_vars, e_env, e_child,
  \* the batch loop and the readers of its children (SpecProgress): position,
  \* the loop variable i of process_files_batch, the number of files, the
  \* lines the readers of each file have still to deliver, the last call of
  \* the batch's progress callback
  b_pc, b_i, b_n, b_left, b_call,
  \* one Shell-mode command handed to the shell (SpecShell): position, the
  \* settings and the input, the command in pieces, the words the shell makes
  s_pc, s_cfg, s_cmd, s_argv

procVars == <<is_processing, should_stop, processed_count, failed_count,
              total_files, current_file, processing_results>>

threadVars == <<pc, nfiles, i, results, result, child, cb_calls, stop_at>>

callVars == <<f_pc, f_in, f_result, f_launched, f_cmd_string,
              f_output_file, f_files, f_ops, f_keys>>

cmdVars == <<c_pc, c_cfg, c_cmd, c_string>>

lineVars == <<l_pc, l_stream, l_line, progress_info, cb_progress>>

guiVars == <<g_pc, g_cfg, g_dir, g_pre, g_post, g_i, g_results,
             new_files, output_listbox>>

envVars == <<e_pc, e_env_vars, e_env, e_child>>

progVars == <<b_pc, b_i, b_n, b_left, b_call>>

shellVars == <<s_pc, s_cfg, s_cmd, s_argv>>

sideVars == <<guiVars, envVars, progVars, shellVars>>

fileVars == <<callVars, cmdVars, lineVars, sideVars>>

pipeVars == <<p_main, p_child, p_next, out_left, pipe, reader, lines_read,
              p_output>>

vars == <<procVars, threadVars, fileVars, pipeVars>>

(* ------------------------- process_file: pieces ------------------------ *)

\* what one call of process_file meets: the configured program and template,
\* the file system around the input and output paths, and the child's conduct
TemplateKinds == {"none", "valid", "unknown_key", "malformed"}

OutputPaths ==
  {<<"none", f>> : f \in {"absent", "writable", "readonly"}}
    \cup {<<"missing", "absent">>, <<"uncreatable", "absent">>}
    \cup {<<"writable", f>> : f \in {"absent", "writable", "readonly"}}
    \cup {<<"readonly", f>> : f \in {"absent", "writable", "readonly"}}

ChildKinds == {"exit0", "exit1", "hang", "fault"}

\* what the child prints on stdout: nothing, blank lines only, or text
StdoutKinds == {"empty", "blank", "text"}

\* what the child does at the expected output path: nothing, nothing there
\* but a file elsewhere, a zero-byte file, a file with content
ChildWrites == {"nothing", "elsewhere", "empty", "data"}

\* a path string: leading blanks, directory part, file stem, extension
Path(pad, dir, stem, ext) == [pad |-> pad, dir |-> dir, stem |-> stem, ext |-> ext]

\* output_file=None (line 308); line 340 treats "" alike
NoPath == Path("", "", "", "")

\* the input_file argument: the file's path as is, or with leading blanks
InputPaths == {Path("", "/in", "x", ".txt"), Path(" ", "/in", "x", ".txt")}

\* the output_file argument: none, a bare name (line 646 with no output
\* directory), a path elsewhere, the input file's path, another spelling of it
OutputArgs ==
  {NoPath, Path("", "", "y", ".txt"), Path("", "/out", "y", ".txt"),
   Path("", "/in", "x", ".txt"), Path("", "/in/.", "x", ".txt")}

\* lines 759-763: the path with surrounding blanks stripped
normalize_file_path(p) == [p EXCEPT !.pad = ""]

\* os.path.join(d, basename) of the file name stem + ext
join(d, stem, ext) == Path("", d, stem, ext)

\* lines 340-350: <stem>_processed<ext> in the output directory, or next to
\* the input when no output directory is configured
default_output_file(n, output_directory) ==
  IF output_directory # ""
  THEN join(output_directory, n.stem \o "_processed", n.ext)
  ELSE join(n.dir, n.stem \o "_processed", n.ext)

\* lines 340-350: the local output_file once determined
expected_output_file(in) ==
  IF in.output_file = NoPath
  THEN default_output_file(normalize_file_path(in.input_file), in.output_directory)
  ELSE in.output_file

\* the file a path string leads to: "/in/." is the directory "/in", and a
\* path with leading blanks names no file of the input directory
SameFile(p, q) ==
  /\ p.pad = "" /\ q.pad = ""
  /\ [p EXCEPT !.dir = IF @ = "/in/." THEN "/in" ELSE @]
       = [q EXCEPT !.dir = IF @ = "/in/." THEN "/in" ELSE @]

\* the file the expected output path leads to: the input file or another one
target(in) ==
  IF SameFile(expected_output_file(in), normalize_file_path(in.input_file))
  THEN "in" ELSE "out"

Failure(err, file) ==
  [success |-> FALSE, error |-> err, input_file |-> file, return_code |-> NoCode]

Exited(code, file) ==
  [success |-> (code = 0), error |-> "", input_file |-> file, return_code |-> code]

\* lines 320-326
check_program(in) == IF in.program = "" THEN ErrNoProgram ELSE ""

\* lines 331-337
check_input(in) == IF ~in.input_exists THEN ErrNotFound ELSE ""

\* lines 353-382: makedirs for a missing directory, then the two os.access tests;
\* an output path without a directory part ("none") skips the directory tests
check_output(in) ==
  IF in.out_dir = "uncreatable" THEN ErrInvalidPath
  ELSE IF in.out_dir = "readonly" THEN ErrDirPerm
  ELSE IF in.out_file = "readonly" THEN ErrFilePerm
  ELSE ""

\* the checks as written with the input test ahead of the program test
precheck_input_first(in) ==
  IF check_input(in) # "" THEN check_input(in)
  ELSE IF check_program(in) # "" THEN check_program(in)
  ELSE check_output(in)

\* lines 320-382 in the order the code runs them: the first error wins
precheck(in) ==
  IF check_program(in) # "" THEN check_program(in)
  ELSE IF check_input(in) # "" THEN check_input(in)
  ELSE check_output(in)

\* the paths of a call and the file system around them: the directory state
\* is "none" exactly for a path without directory part; an output path
\* leading to the input file shares its existence and directory; facts the
\* call never reads (the directory setting with an explicit output_file, the
\* input's size unless it is the output) have one value
PathCases ==
  {c0 \in [input_file : InputPaths, output_file : OutputArgs,
           output_directory : {"", "/D"}, input_exists : BOOLEAN,
           input_size : {"empty", "data"}, out : OutputPaths] :
     /\ (expected_output_file(c0).dir = "") <=> (c0.out[1] = "none")
     /\ c0.output_file # NoPath => c0.output_directory = "/D"
     /\ target(c0) = "in" =>
          /\ c0.out[1] \in {"writable", "readonly"}
          /\ (c0.out[2] = "absent") <=> ~c0.input_exists
     /\ (target(c0) = "out" \/ ~c0.input_exists) => c0.input_size = "data"}

\* a call whose child, if one starts, prints nothing and writes nothing
QuietInputs ==
  {[program |-> p, input_file |-> c0.input_file, output_file |-> c0.output_file,
    output_directory |-> c0.output_directory, input_exists |-> c0.input_exists,
    input_size |-> c0.input_size, out_dir |-> c0.out[1], out_file |-> c0.out[2],
    template |-> t, launch |-> l, child |-> c, stdout |-> "empty",
    writes |-> "nothing"] :
     p \in {"", "prog"}, c0 \in PathCases, t \in TemplateKinds,
     l \in {"ok", "oserror"}, c \in ChildKinds}

\* what one call of process_file can meet; the child's output varies only
\* where a child starts
FileInputs ==
  QuietInputs \cup
    {[in EXCEPT !.stdout = so, !.writes = w] :
       in \in {q \in QuietInputs : precheck(q) = "" /\ q.launch = "ok"},
       so \in StdoutKinds, w \in ChildWrites}

\* the files at the input path and at the expected output path when the call
\* starts; an output file left by an earlier run has content
files_at_start(in) ==
  [in |-> IF in.input_exists THEN in.input_size ELSE "absent",
   out |-> IF target(in) = "in" \/ in.out_file = "absent"
           THEN "absent" ELSE "data"]

\* os.path.exists(output_file)
exists(files, t) == files[t] # "absent"

\* the child's doing at the expected output path while it runs
after_child(files, t, w) ==
  IF w \in {"empty", "data"} THEN [files EXCEPT ![t] = w] ELSE files

\* exit code 0 as written without the write of stdout
discard_stdout(files, t, stdout) == files

\* lines 491-515, exit code 0: an existing output file is left alone;
\* otherwise stdout with something besides white space is written to it
save_stdout(files, t, stdout) ==
  IF exists(files, t) THEN files
  ELSE IF stdout = "text" THEN [files EXCEPT ![t] = "stdout"]
  ELSE files

\* lines 519-528, non-zero exit code: the output file is removed if its text
\* differs from input_file and it is empty or stdout holds text
remove_failed_output(files, t, same_string, stdout) ==
  IF /\ exists(files, t)
     /\ ~same_string
     /\ (files[t] = "empty" \/ stdout = "text")
  THEN [files EXCEPT ![t] = "absent"]
  ELSE files

\* the handlers as written without the removal
keep_output(files, t, same_string) == files

\* lines 553-558 and 575-580: the output file is removed if it exists and its
\* text differs from input_file
remove_output(files, t, same_string) ==
  IF exists(files, t) /\ ~same_string
  THEN [files EXCEPT ![t] = "absent"]
  ELSE files

\* the removals and writes that lead from one file state to the next
Ops(before, after) ==
  {<<"remove", f>> : f \in {g \in {"in", "out"} :
                              before[g] # "absent" /\ after[g] = "absent"}}
    \cup {<<"write", f>> : f \in {g \in {"in", "out"} :
                              before[g] # "stdout" /\ after[g] = "stdout"}}

\* os.path.exists as the record shows it
Flag(b) == IF b THEN "True" ELSE "False"

\* the record's input_file, output_file and output_exists keys
Keys(input_file, output_file, output_exists) ==
  [input_file |-> input_file, output_file |-> output_file,
   output_exists |-> output_exists]

NoKeys == Keys(NoPath, NoPath, "no key")

\* str.format on the template, lines 195-200: an unknown {name} raises
\* KeyError, a stray brace raises ValueError
format_template(t) ==
  CASE t = "valid" -> "ok"
    [] t = "unknown_key" -> "KeyError"
    [] OTHER -> "ValueError"

\* build_command as written with the generic except clause missing
build_command_keyerror_only(t) ==
  IF t # "none"
  THEN [raises |-> (format_template(t) = "ValueError"), use_shell |-> TRUE,
        fallback |-> (format_template(t) = "KeyError")]
  ELSE [raises |-> FALSE, use_shell |-> FALSE, fallback |-> FALSE]

\* lines 184-230: a real template gives a shell string, with the fallback
\* string on any formatting error; no template gives an argument vector
build_command(t) ==
  IF t # "none"
  THEN [raises |-> FALSE, use_shell |-> TRUE, fallback |-> (format_template(t) # "ok")]
  ELSE [raises |-> FALSE, use_shell |-> FALSE, fallback |-> FALSE]

\* lines 243-275: the same two branches, both except clauses present
build_command_string(t) ==
  IF t # "none"
  THEN [raises |-> FALSE, fallback |-> (format_template(t) # "ok")]
  ELSE [raises |-> FALSE, fallback |-> FALSE]

\* process.wait without a timeout
wait_forever(c) ==
  CASE c = "exit0" -> {"exit0"}
    [] c = "exit1" -> {"exit1"}
    [] c = "hang" -> {}
    [] OTHER -> {"fault"}

\* line 478, process.wait(timeout=300): a child that has not exited by then
\* raises TimeoutExpired; "fault" is any other exception inside the try
wait_outcome(c) ==
  CASE c = "exit0" -> {"exit0"}
    [] c = "exit1" -> {"exit1"}
    [] c = "hang" -> {"timeout"}
    [] OTHER -> {"fault"}

\* lines 534-590: the record each way out of the try builds
outcome_result(o, file) ==
  CASE o = "exit0" -> Exited(0, file)
    [] o = "exit1" -> Exited(1, file)
    [] o = "timeout" -> Failure(ErrTimeout, file)
    [] OTHER -> Failure(ErrException, file)

(* --------------------------- batch orchestrator ------------------------ *)

RECURSIVE QueuedUpTo(_, _)
QueuedUpTo(n, k) == IF k = 0 THEN 0 ELSE n[k] + QueuedUpTo(n, k - 1)

\* files of all batches whose thread exists
Queued == QueuedUpTo(nfiles, MaxThreads)

StartPcs == {"b604", "b615", "b616", "b617", "b618"}

\* inside the for loop of lines 620-675
LoopPcs == {"check", "b628", "call", "wait", "append", "count", "sleep"}

\* file i has passed the should_stop test and has not finished its iteration
InFlightPcs == {"b628", "call", "wait", "append", "count", "sleep"}

EndPcs == {"b677", "b678"}

\* between the call of process_files_batch and its return
BatchPcs == StartPcs \cup LoopPcs \cup EndPcs

\* the entry of the results list for a record process_file returned
Entry(r) == [input_file |-> r.input_file, success |-> r.success]

\* files whose iteration a batch has entered
FilesStarted(w) ==
  IF pc[w] \in InFlightPcs THEN i[w] + 1
  ELSE IF pc[w] = "check" THEN i[w]
  ELSE 0

\* lines 714-722; line 719 falls back to the sum of the counters while the
\* attribute total_files does not exist yet
get_processing_status ==
  [is_processing |-> is_processing,
   current_file |-> current_file,
   processed_count |-> processed_count,
   failed_count |-> failed_count,
   total_count |-> IF total_files # NoAttr THEN total_files
                   ELSE processed_count + failed_count]

InitProc ==
  /\ is_processing = FALSE
  /\ should_stop = FALSE
  /\ processed_count = 0
  /\ failed_count = 0
  /\ total_files = NoAttr
  /\ current_file = 0
  /\ processing_results = <<>>

InitThreads ==
  /\ pc = [w \in Workers |-> "idle"]
  /\ nfiles = [w \in Workers |-> 0]
  /\ i = [w \in Workers |-> 0]
  /\ results = [w \in Workers |-> <<>>]
  /\ result = [w \in Workers |-> NoResult]
  /\ child = [w \in Workers |-> "none"]
  /\ cb_calls = [w \in Workers |-> <<>>]
  /\ stop_at = [w \in Workers |-> NoStop]

\* lines 696-703: a new daemon thread that will run process_files_batch on
\* n files (files 1..n of the list) and then the callback; every caller passes
\* a list with at least one file (gui.py:650-652, 668-688)
process_files_async(w, n) ==
  /\ pc[w] = "idle"
  /\ n \in 1..MaxFiles
  /\ Queued + n <= MaxFiles
  /\ pc' = [pc EXCEPT ![w] = "b604"]
  /\ nfiles' = [nfiles EXCEPT ![w] = n]
  /\ UNCHANGED <<procVars, i, results, result, child, cb_calls, stop_at,
                 fileVars, pipeVars>>

\* lines 604-611: an empty list returns at once; otherwise total_files is set
B604(w) ==
  /\ pc[w] = "b604"
  /\ IF nfiles[w] = 0
     THEN /\ pc' = [pc EXCEPT ![w] = "ret"]
          /\ UNCHANGED total_files
     ELSE /\ pc' = [pc EXCEPT ![w] = "b615"]
          /\ total_files' = nfiles[w]
  /\ UNCHANGED <<is_processing, should_stop, processed_count, failed_count,
                 current_file, processing_results, nfiles, i, results, result,
                 child, cb_calls, stop_at, fileVars, pipeVars>>

\* lines 614-615
B615(w) ==
  /\ pc[w] = "b615"
  /\ results' = [results EXCEPT ![w] = <<>>]
  /\ processing_results' = <<>>
  /\ pc' = [pc EXCEPT ![w] = "b616"]
  /\ UNCHANGED <<is_processing, should_stop, processed_count, failed_count,
                 total_files, current_file, nfiles, i, result, child, cb_calls,
                 stop_at, fileVars, pipeVars>>

\* line 616
B616(w) ==
  /\ pc[w] = "b616"
  /\ is_processing' = TRUE
  /\ pc' = [pc EXCEPT ![w] = "b617"]
  /\ UNCHANGED <<should_stop, processed_count, failed_count, total_files,
                 current_file, processing_results, nfiles, i, results, result,
                 child, cb_calls, stop_at, fileVars, pipeVars>>

\* line 617
B617(w) ==
  /\ pc[w] = "b617"
  /\ processed_count' = 0
  /\ pc' = [pc EXCEPT ![w] = "b618"]
  /\ UNCHANGED <<is_processing, should_stop, failed_count, total_files,
                 current_file, processing_results, nfiles, i, results, result,
                 child, cb_calls, stop_at, fileVars, pipeVars>>

\* line 618, then the loop starts at index 0
B618(w) ==
  /\ pc[w] = "b618"
  /\ failed_count' = 0
  /\ i' = [i EXCEPT ![w] = 0]
  /\ pc' = [pc EXCEPT ![w] = "check"]
  /\ UNCHANGED <<is_processing, should_stop, processed_count, total_files,
                 current_file, processing_results, nfiles, results, result,
                 child, cb_calls, stop_at, fileVars, pipeVars>>

\* the loop as written without the should_stop test
never_break(stop) == FALSE

\* line 622: the test that leaves the loop
loop_breaks(stop) == stop

\* lines 620-624
Check(w) ==
  /\ pc[w] = "check"
  /\ pc' = [pc EXCEPT ![w] = IF loop_breaks(should_stop) THEN "b677" ELSE "b628"]
  /\ UNCHANGED <<procVars, nfiles, i, results, result, child, cb_calls,
                 stop_at, fileVars, pipeVars>>

\* lines 627-628 (the output path of 634-636 is a local)
B628(w) ==
  /\ pc[w] = "b628"
  /\ current_file' = i[w] + 1
  /\ pc' = [pc EXCEPT ![w] = "call"]
  /\ UNCHANGED <<is_processing, should_stop, processed_count, failed_count,
                 total_files, processing_results, nfiles, i, results, result,
                 child, cb_calls, stop_at, fileVars, pipeVars>>

\* process_file from its first line to the child's launch (lines 320-414):
\* an early return, an exception outside the try (build_command, line 385) or
\* one raised by a handler that reads an unbound cmd_string (the try fails at
\* line 389, before the assignment), an exception of Popen handled at line
\* 569, or a running child
before_wait(in) ==
  IF precheck(in) # ""
  THEN [kind |-> "return", error |-> precheck(in), child |-> "none"]
  ELSE IF build_command(in.template).raises
            \/ build_command_string(in.template).raises
  THEN [kind |-> "raise", error |-> "", child |-> "none"]
  ELSE IF in.launch = "oserror"
  THEN [kind |-> "return", error |-> ErrException, child |-> "none"]
  ELSE [kind |-> "launched", error |-> "", child |-> in.child]

CallOutcomes == {before_wait(in) : in \in FileInputs}

\* line 649, process_file up to the wait; an exception that leaves
\* process_file also leaves process_files_batch and ends the thread
Call(w) ==
  /\ pc[w] = "call"
  /\ \E o \in CallOutcomes :
       /\ pc' = [pc EXCEPT ![w] = CASE o.kind = "return" -> "append"
                                    [] o.kind = "raise" -> "raised"
                                    [] OTHER -> "wait"]
       /\ result' = [result EXCEPT ![w] =
                       IF o.kind = "return" THEN Failure(o.error, i[w] + 1) ELSE @]
       /\ child' = [child EXCEPT ![w] = o.child]
  /\ UNCHANGED <<procVars, nfiles, i, results, cb_calls, stop_at, fileVars,
                 pipeVars>>

\* line 649 continued, lines 478-590: the wait ends by the child's exit, by
\* the timeout or by an exception, and process_file returns its record
Wait(w) ==
  /\ pc[w] = "wait"
  /\ \E o \in wait_outcome(child[w]) :
       result' = [result EXCEPT ![w] = outcome_result(o, i[w] + 1)]
  /\ child' = [child EXCEPT ![w] = "none"]
  /\ pc' = [pc EXCEPT ![w] = "append"]
  /\ UNCHANGED <<procVars, nfiles, i, results, cb_calls, stop_at, fileVars,
                 pipeVars>>

\* lines 650-651
AppendResult(w) ==
  /\ pc[w] = "append"
  /\ results' = [results EXCEPT ![w] = Append(@, Entry(result[w]))]
  /\ processing_results' = Append(processing_results, Entry(result[w]))
  /\ pc' = [pc EXCEPT ![w] = "count"]
  /\ UNCHANGED <<is_processing, should_stop, processed_count, failed_count,
                 total_files, current_file, nfiles, i, result, child, cb_calls,
                 stop_at, fileVars, pipeVars>>

\* the counting as written with the else branch lost
counts_as_processed_always(r) == TRUE

\* line 653
counts_as_processed(r) == r.success

\* lines 653-656
Count(w) ==
  /\ pc[w] = "count"
  /\ IF counts_as_processed(result[w])
     THEN /\ processed_count' = processed_count + 1
          /\ UNCHANGED failed_count
     ELSE /\ failed_count' = failed_count + 1
          /\ UNCHANGED processed_count
  /\ result' = [result EXCEPT ![w] = NoResult]
  /\ pc' = [pc EXCEPT ![w] = "sleep"]
  /\ UNCHANGED <<is_processing, should_stop, total_files, current_file,
                 processing_results, nfiles, i, results, child, cb_calls,
                 stop_at, fileVars, pipeVars>>

\* line 675, then the for statement of line 620 takes the next file or ends
Sleep(w) ==
  /\ pc[w] = "sleep"
  /\ i' = [i EXCEPT ![w] = @ + 1]
  /\ pc' = [pc EXCEPT ![w] = IF i[w] + 1 < nfiles[w] THEN "check" ELSE "b677"]
  /\ UNCHANGED <<procVars, nfiles, results, result, child, cb_calls, stop_at,
                 fileVars, pipeVars>>

\* line 677
B677(w) ==
  /\ pc[w] = "b677"
  /\ is_processing' = FALSE
  /\ pc' = [pc EXCEPT ![w] = "b678"]
  /\ UNCHANGED <<should_stop, processed_count, failed_count, total_files,
                 current_file, processing_results, nfiles, i, results, result,
                 child, cb_calls, stop_at, fileVars, pipeVars>>

\* lines 678-681
B678(w) ==
  /\ pc[w] = "b678"
  /\ current_file' = 0
  /\ pc' = [pc EXCEPT ![w] = "ret"]
  /\ UNCHANGED <<is_processing, should_stop, processed_count, failed_count,
                 total_files, processing_results, nfiles, i, results, result,
                 child, cb_calls, stop_at, fileVars, pipeVars>>

\* lines 697-699: process_thread hands the returned list to the callback
Callback(w) ==
  /\ pc[w] = "ret"
  /\ cb_calls' = [cb_calls EXCEPT ![w] = Append(@, results[w])]
  /\ pc' = [pc EXCEPT ![w] = "done"]
  /\ UNCHANGED <<procVars, nfiles, i, results, result, child, stop_at,
                 fileVars, pipeVars>>

\* the thread object of a finished batch goes away with its locals
ThreadExit(w) ==
  /\ pc[w] = "done"
  /\ pc' = [pc EXCEPT ![w] = "idle"]
  /\ nfiles' = [nfiles EXCEPT ![w] = 0]
  /\ i' = [i EXCEPT ![w] = 0]
  /\ results' = [results EXCEPT ![w] = <<>>]
  /\ cb_calls' = [cb_calls EXCEPT ![w] = <<>>]
  /\ stop_at' = [stop_at EXCEPT ![w] = NoStop]
  /\ UNCHANGED <<procVars, result, child, fileVars, pipeVars>>

\* lines 739-743, called from the main thread under the test of gui.py:1657;
\* stop_at notes how many files each batch inside process_files_batch had
\* started
stop_processing ==
  /\ is_processing
  /\ should_stop' = TRUE
  /\ is_processing' = FALSE
  /\ stop_at' = [w \in Workers |->
                   IF pc[w] \in StartPcs \cup LoopPcs /\ stop_at[w] = NoStop
                   THEN FilesStarted(w) ELSE stop_at[w]]
  /\ UNCHANGED <<processed_count, failed_count, total_files, current_file,
                 processing_results, pc, nfiles, i, results, result, child,
                 cb_calls, fileVars, pipeVars>>

\* lines 745-747
reset_stop_flag ==
  /\ should_stop
  /\ should_stop' = FALSE
  /\ stop_at' = [w \in Workers |-> NoStop]
  /\ UNCHANGED <<is_processing, processed_count, failed_count, total_files,
                 current_file, processing_results, pc, nfiles, i, results,
                 result, child, cb_calls, fileVars, pipeVars>>

\* lines 733-737
clear_results ==
  /\ processing_results' = <<>>
  /\ processed_count' = 0
  /\ failed_count' = 0
  /\ UNCHANGED <<is_processing, should_stop, total_files, current_file,
                 threadVars, fileVars, pipeVars>>

WorkerStep(w) ==
  \/ B604(w)
  \/ B615(w)
  \/ B616(w)
  \/ B617(w)
  \/ B618(w)
  \/ Check(w)
  \/ B628(w)
  \/ Call(w)
  \/ Wait(w)
  \/ AppendResult(w)
  \/ Count(w)
  \/ Sleep(w)
  \/ B677(w)
  \/ B678(w)
  \/ Callback(w)

NoBatch == \A w \in Workers : pc[w] = "idle"

(* ----------------------------- specifications ------------------------- *)

\* no configuration and no command
NoConfig ==
  [command_template |-> <<>>, env_vars |-> "", processing_program |-> "",
   output_directory |-> "", input_file |-> <<>>, args |-> <<>>]

NoCommand == [cmd_list |-> <<>>, use_shell |-> FALSE]

\* lines 485-486 not reached: stdout and stderr are not bound
NoOutput == [s \in Streams |-> NoAttr]

\* the progress callback has not been called
NoCall == [file |-> NoAttr, percentage |-> 0, file_progress |-> [num |-> 0, den |-> 1]]

\* no run of the GUI
NoRun ==
  [mode |-> "none", command_template |-> <<>>, del_origin_file |-> FALSE,
   dialog |-> "none", files |-> <<>>, conduct |-> <<>>, dir |-> {}]

\* line 394: env stays None (a mapping without keys stands for it), Popen
\* hands the child the parent's environment
NoEnv == <<>>

FileOff ==
  /\ f_pc = "off"
  /\ f_in = CHOOSE in \in FileInputs : TRUE
  /\ f_result = NoResult
  /\ f_launched = 0
  /\ f_cmd_string = "unbound"
  /\ f_output_file = NoPath
  /\ f_files = [in |-> "absent", out |-> "absent"]
  /\ f_ops = {}
  /\ f_keys = NoKeys

CmdOff ==
  /\ c_pc = "off"
  /\ c_cfg = NoConfig
  /\ c_cmd = NoCommand
  /\ c_string = ""

LineOff ==
  /\ l_pc = "off"
  /\ l_stream = "stdout"
  /\ l_line = <<>>
  /\ progress_info = <<>>
  /\ cb_progress = <<>>

PipeOff ==
  /\ p_main = "off"
  /\ p_child = "none"
  /\ p_next = "none"
  /\ out_left = [s \in Streams |-> 0]
  /\ pipe = [s \in Streams |-> 0]
  /\ reader = [s \in Streams |-> "unstarted"]
  /\ lines_read = [s \in Streams |-> 0]
  /\ p_output = NoOutput

GuiOff ==
  /\ g_pc = "off"
  /\ g_cfg = NoRun
  /\ g_dir = {}
  /\ g_pre = {}
  /\ g_post = {}
  /\ g_i = 0
  /\ g_results = <<>>
  /\ new_files = {}
  /\ output_listbox = {}

EnvOff ==
  /\ e_pc = "off"
  /\ e_env_vars = <<>>
  /\ e_env = NoEnv
  /\ e_child = NoEnv

ProgOff ==
  /\ b_pc = "off"
  /\ b_i = 0
  /\ b_n = 0
  /\ b_left = <<>>
  /\ b_call = NoCall

ShellOff ==
  /\ s_pc = "off"
  /\ s_cfg = NoConfig
  /\ s_cmd = <<>>
  /\ s_argv = <<>>

SideOff == GuiOff /\ EnvOff /\ ProgOff /\ ShellOff

Init ==
  /\ InitProc /\ InitThreads /\ FileOff /\ CmdOff /\ LineOff /\ PipeOff
  /\ SideOff

\* the processor as the GUI drives it: process_files (gui.py:875-957) starts a
\* thread whenever the user asks, stop and the setters run on the main thread
Next ==
  \/ \E w \in Workers, n \in 1..MaxFiles : process_files_async(w, n)
  \/ \E w \in Workers : WorkerStep(w)
  \/ \E w \in Workers : ThreadExit(w)
  \/ stop_processing
  \/ reset_stop_flag
  \/ clear_results

Spec == Init /\ [][Next]_vars

\* the processor under a caller that starts a batch, and resets the flag or the
\* counters, only while no batch is running; stop_processing comes at any time
NextSeq ==
  \/ \E w \in Workers, n \in 1..MaxFiles : NoBatch /\ process_files_async(w, n)
  \/ \E w \in Workers : WorkerStep(w)
  \/ \E w \in Workers : ThreadExit(w)
  \/ stop_processing
  \/ NoBatch /\ reset_stop_flag
  \/ NoBatch /\ clear_results

SpecSeq == Init /\ [][NextSeq]_vars

\* a started thread keeps running: the scheduler gives every worker its steps
FairSeq == SpecSeq /\ \A w \in Workers : WF_vars(WorkerStep(w))

(* ------------------------- claims: the orchestrator -------------------- *)

Sum(st) == st.processed_count + st.failed_count

Successes(rs) == Cardinality({k \in 1..Len(rs) : rs[k].success})

Failures(rs) == Cardinality({k \in 1..Len(rs) : ~rs[k].success})

InOrder(rs) == \A k \in 1..Len(rs) : rs[k].input_file = k

Returned(w) == pc[w] \in {"ret", "done"}

\* C1: whenever a batch is between its start and its return, the status an
\* observer reads has processed_count + failed_count <= total_count, and a
\* batch that returns with every file processed has the sum equal to the total.
C1_CountsWithinTotal ==
  \A w \in Workers :
    /\ pc[w] \in BatchPcs
         => Sum(get_processing_status) <= get_processing_status.total_count
    /\ (pc[w] = "ret" /\ Len(results[w]) = nfiles[w])
         => Sum(get_processing_status) = get_processing_status.total_count

\* C2: a stop requested when a batch has started k files lets file k finish
\* and be appended and counted, starts no later file, makes the batch return
\* the results of exactly those k files in order, and leaves is_processing
\* false; a 3-file batch stopped with one file started returns 1 result with
\* processed_count + failed_count < total_files.
C2_StopAtFileBoundary ==
  \A w \in Workers :
    stop_at[w] # NoStop =>
      /\ pc[w] \in InFlightPcs => i[w] < stop_at[w]
      /\ pc[w] \in EndPcs \cup {"ret", "done"} =>
           /\ Len(results[w]) = stop_at[w]
           /\ InOrder(results[w])
           /\ processed_count + failed_count = stop_at[w]
      /\ Returned(w) => ~is_processing
      /\ (Returned(w) /\ nfiles[w] = 3 /\ stop_at[w] = 1) =>
           /\ Len(results[w]) = 1
           /\ processed_count + failed_count < total_files

C2_Witness ==
  \E w \in Workers :
    /\ pc[w] = "done"
    /\ nfiles[w] = 3
    /\ stop_at[w] = 1
    /\ Len(results[w]) = 1

\* C3: a batch enters its loop with both counters at 0 and should_stop false
\* unless stop_processing ran after the batch started, and a batch during which
\* stop_processing never ran returns one result per file.
C3_StartClearsStop ==
  \A w \in Workers :
    stop_at[w] = NoStop =>
      /\ (pc[w] = "check" /\ i[w] = 0) =>
           (processed_count = 0 /\ failed_count = 0 /\ ~should_stop)
      /\ pc[w] = "ret" => Len(results[w]) = nfiles[w]

C7_OneBatchActive == Cardinality({w \in Workers : pc[w] \in LoopPcs}) <= 1

\* C8: while a file of a batch is in flight is_processing is true (it turns
\* false only when the worker has left the loop).
C8_IdleMeansNoFileInFlight ==
  \A w \in Workers : pc[w] \in InFlightPcs => is_processing

\* C5: every started batch ends, whatever its children do: the worker reaches
\* the end of its thread having invoked the callback exactly once, with the
\* ordered list process_files_batch returned, and is_processing is false when
\* the callback is invoked.
C5_BatchEndsWithOneCallback ==
  /\ \A w \in Workers : (pc[w] = "b604") ~> (pc[w] = "done")
  /\ [](\A w \in Workers :
          /\ Len(cb_calls[w]) <= 1
          /\ pc[w] = "done" =>
               (cb_calls[w] = <<results[w]>> /\ InOrder(results[w]))
          /\ pc[w] = "ret" => ~is_processing)

C5_Witness ==
  \E w \in Workers :
    /\ pc[w] = "done"
    /\ nfiles[w] >= 2
    /\ cb_calls[w] = <<results[w]>>
    /\ Len(results[w]) = nfiles[w]
    /\ \E k \in 1..Len(results[w]) : ~results[w][k].success

(* ------------------------ one call of process_file --------------------- *)

InitFile ==
  /\ f_pc = "f320"
  /\ f_in \in FileInputs
  /\ f_result = NoResult
  /\ f_launched = 0
  /\ f_cmd_string = "unbound"
  /\ f_output_file = f_in.output_file
  /\ f_files = files_at_start(f_in)
  /\ f_ops = {}
  /\ f_keys = NoKeys
  /\ InitProc /\ InitThreads /\ CmdOff /\ LineOff /\ PipeOff /\ SideOff

\* the input_file and output_file keys of the record an early return builds:
\* lines 324-325, 335-336, and 363-364, 372-373, 380-381
early_keys(in) ==
  CASE precheck(in) = ErrNoProgram ->
         Keys(in.input_file, in.output_file, "no key")
    [] precheck(in) = ErrNotFound ->
         Keys(normalize_file_path(in.input_file), in.output_file, "no key")
    [] OTHER ->
         Keys(in.input_file, expected_output_file(in), "no key")

\* lines 320-382: the three checks, each with its early return; the local
\* output_file is determined (lines 340-350) once the input is known to exist
FPrecheck ==
  /\ f_pc = "f320"
  /\ IF precheck(f_in) # ""
     THEN /\ f_result' = Failure(precheck(f_in), 1)
          /\ f_keys' = early_keys(f_in)
          /\ f_pc' = "returned"
     ELSE /\ f_pc' = "f385"
          /\ UNCHANGED <<f_result, f_keys>>
  /\ f_output_file' = IF precheck(f_in) \in {ErrNoProgram, ErrNotFound}
                      THEN f_output_file
                      ELSE expected_output_file(f_in)
  /\ UNCHANGED <<f_in, f_launched, f_cmd_string, f_files, f_ops, sideVars, procVars,
                 threadVars, pipeVars, cmdVars, lineVars>>

\* line 385, outside the try: an exception here leaves process_file
FBuildCommand ==
  /\ f_pc = "f385"
  /\ f_pc' = IF build_command(f_in.template).raises THEN "raised" ELSE "f389"
  /\ UNCHANGED <<f_in, f_result, f_launched, f_cmd_string, f_output_file,
                 f_files, f_ops, f_keys, sideVars, procVars, threadVars, pipeVars, cmdVars, lineVars>>

\* line 389, first statement of the try: cmd_string is bound only if
\* build_command_string returns
FBuildCommandString ==
  /\ f_pc = "f389"
  /\ IF build_command_string(f_in.template).raises
     THEN /\ f_pc' = "h569"
          /\ UNCHANGED f_cmd_string
     ELSE /\ f_pc' = "f405"
          /\ f_cmd_string' = "bound"
  /\ UNCHANGED <<f_in, f_result, f_launched, f_output_file, f_files, f_ops,
                 f_keys, sideVars, procVars, threadVars, pipeVars, cmdVars, lineVars>>

\* lines 405-414: Popen starts the child or raises (a missing binary, a spawn
\* failure)
FPopen ==
  /\ f_pc = "f405"
  /\ IF f_in.launch = "oserror"
     THEN /\ f_pc' = "h569"
          /\ UNCHANGED f_launched
     ELSE /\ f_pc' = "f478"
          /\ f_launched' = f_launched + 1
  /\ UNCHANGED <<f_in, f_result, f_cmd_string, f_output_file, f_files, f_ops,
                 f_keys, sideVars, procVars, threadVars, pipeVars, cmdVars, lineVars>>

\* lines 520, 553, 575: output_file != input_file compares the two strings,
\* input_file being the argument as passed
differs_from_input(output_file, in) == output_file # in.input_file

\* lines 491-528: what the processor does to the files once the child has
\* exited with code 0 (o = "exit0") or with another code
post_process(o, files, output_file, in) ==
  IF o = "exit0"
  THEN save_stdout(files, target(in), in.stdout)
  ELSE remove_failed_output(files, target(in),
                            ~differs_from_input(output_file, in), in.stdout)

\* lines 478-545: the child, having done what it does to the output path,
\* exits and the wait returns its code, the output file is looked after and
\* the record is built; or the wait raises TimeoutExpired, or something else
\* in the try raises
FWait ==
  /\ f_pc = "f478"
  /\ \E o \in wait_outcome(f_in.child) :
       LET ran == after_child(f_files, target(f_in), f_in.writes)
           done == post_process(o, ran, f_output_file, f_in)
       IN CASE o \in {"exit0", "exit1"} ->
                 /\ f_result' = outcome_result(o, 1)
                 /\ f_files' = done
                 /\ f_ops' = f_ops \cup Ops(ran, done)
                 /\ f_keys' = Keys(normalize_file_path(f_in.input_file),
                                   f_output_file,
                                   Flag(exists(done, target(f_in))))
                 /\ f_pc' = "returned"
            [] o = "timeout" ->
                 /\ f_pc' = "h547"
                 /\ f_files' = ran
                 /\ UNCHANGED <<f_result, f_ops, f_keys>>
            [] OTHER ->
                 /\ f_pc' = "h569"
                 /\ f_files' = ran
                 /\ UNCHANGED <<f_result, f_ops, f_keys>>
  /\ UNCHANGED <<f_in, f_launched, f_cmd_string, f_output_file, sideVars, procVars,
                 threadVars, pipeVars, cmdVars, lineVars>>

\* lines 547-568; TimeoutExpired comes only from line 478, past the
\* assignment of cmd_string
FTimeoutHandler ==
  /\ f_pc = "h547"
  /\ LET done == remove_output(f_files, target(f_in),
                               ~differs_from_input(f_output_file, f_in))
     IN /\ f_files' = done
        /\ f_ops' = f_ops \cup Ops(f_files, done)
        /\ f_keys' = Keys(normalize_file_path(f_in.input_file), f_output_file,
                          Flag(exists(done, target(f_in))))
  /\ f_result' = outcome_result("timeout", 1)
  /\ f_pc' = "returned"
  /\ UNCHANGED <<f_in, f_launched, f_cmd_string, f_output_file, sideVars, procVars,
                 threadVars, pipeVars, cmdVars, lineVars>>

\* lines 569-590; line 570 reads cmd_string, which raises UnboundLocalError
\* if the try failed before binding it
FExceptionHandler ==
  /\ f_pc = "h569"
  /\ IF f_cmd_string = "unbound"
     THEN /\ f_pc' = "raised"
          /\ UNCHANGED <<f_result, f_files, f_ops, f_keys>>
     ELSE LET done == remove_output(f_files, target(f_in),
                                    ~differs_from_input(f_output_file, f_in))
          IN /\ f_files' = done
             /\ f_ops' = f_ops \cup Ops(f_files, done)
             /\ f_keys' = Keys(normalize_file_path(f_in.input_file),
                               f_output_file,
                               Flag(exists(done, target(f_in))))
             /\ f_result' = outcome_result("fault", 1)
             /\ f_pc' = "returned"
  /\ UNCHANGED <<f_in, f_launched, f_cmd_string, f_output_file, sideVars, procVars,
                 threadVars, pipeVars, cmdVars, lineVars>>

NextFile ==
  \/ FPrecheck
  \/ FBuildCommand
  \/ FBuildCommandString
  \/ FPopen
  \/ FWait
  \/ FTimeoutHandler
  \/ FExceptionHandler

SpecFile == InitFile /\ [][NextFile]_vars

(* --------------------------- claims: process_file ---------------------- *)

\* a fault of the call: a failed check, a failed launch, or a child that
\* exits non-zero, outlives the timeout or breaks the try
Faulty(in) ==
  \/ precheck(in) # ""
  \/ in.launch = "oserror"
  \/ in.child \in {"exit1", "hang", "fault"}

\* C9: process_file never raises to its caller; whatever fault the call meets
\* (failed check, template format error, failed launch, timeout, exception,
\* non-zero exit) it returns a record, with success false for every fault but
\* the template format error, which falls back to the minimal command.
C9_NeverRaises ==
  /\ f_pc # "raised"
  /\ f_pc = "returned" =>
       /\ f_result # NoResult
       /\ f_result.success = ~Faulty(f_in)

C9_Witness ==
  /\ f_pc = "returned"
  /\ f_in.template = "malformed"
  /\ f_in.child = "hang"
  /\ f_result = Failure(ErrTimeout, 1)

PermissionErrors == {ErrDirPerm, ErrFilePerm}

\* C10: the checks run in a fixed order before any launch: no program gives
\* "No processing program specified" even when the input is missing; else a
\* missing input gives "Input file not found"; else an unwritable output
\* directory or output file gives a permission error; no child is ever
\* started by a call whose checks fail.
C10_CheckOrder ==
  /\ f_launched > 0 => precheck(f_in) = ""
  /\ f_pc = "returned" =>
       /\ f_in.program = "" =>
            (f_result = Failure(ErrNoProgram, 1) /\ f_launched = 0)
       /\ (f_in.program # "" /\ ~f_in.input_exists) =>
            (f_result = Failure(ErrNotFound, 1) /\ f_launched = 0)
       /\ (/\ f_in.program # ""
           /\ f_in.input_exists
           /\ \/ f_in.out_dir = "readonly"
              \/ f_in.out_dir # "uncreatable" /\ f_in.out_file = "readonly") =>
            (/\ ~f_result.success
             /\ f_result.error \in PermissionErrors
             /\ f_launched = 0)

C10_Witness ==
  /\ f_pc = "returned"
  /\ f_in.program = ""
  /\ ~f_in.input_exists
  /\ f_in.out_dir = "readonly"
  /\ f_result = Failure(ErrNoProgram, 1)

\* the files as the child leaves them, before the processor looks at them
AsChildLeft(in, launched) ==
  IF launched > 0
  THEN after_child(files_at_start(in), target(in), in.writes)
  ELSE files_at_start(in)

\* C11: after a non-zero exit an existing expected output file (one that is
\* not the input file) is deleted if and only if it is empty or
\* stdout-derived: a zero-byte file is always removed and output_exists is
\* false, and a file the external program wrote with content is never
\* deleted, whether or not the program printed to stdout.
C11_FailedOutputCleanup ==
  (f_pc = "returned" /\ f_result.return_code = 1 /\ target(f_in) = "out") =>
    /\ AsChildLeft(f_in, f_launched).out = "empty" =>
         (f_files.out = "absent" /\ f_keys.output_exists = "False")
    /\ f_in.writes = "data" =>
         (f_files.out = "data" /\ f_keys.output_exists = "True")

C13_InputFileUntouched ==
  /\ <<"remove", "in">> \notin f_ops
  /\ <<"write", "in">> \notin f_ops

C15_OtherFileOnly ==
  (/\ f_pc = "returned"
   /\ f_result.return_code = 0
   /\ f_in.stdout = "text"
   /\ f_in.writes = "elsewhere"
   /\ ~exists(files_at_start(f_in), target(f_in))) =>
    (f_result.success /\ f_keys.output_exists = "False")

\* C16: without an output_file argument the expected output path for input X
\* and output directory D is D joined with the basename of X, the record's
\* input_file is the input path, and that output file exists after a
\* successful run of a program that echoes its arguments.
C16_DefaultOutputPath ==
  (/\ f_pc = "returned"
   /\ f_in.output_file = NoPath
   /\ f_in.output_directory # ""
   /\ f_result.return_code = 0
   /\ f_in.stdout = "text"
   /\ f_in.writes = "nothing"
   /\ f_in.input_file.pad = "") =>
    /\ f_keys.output_file = join(f_in.output_directory, f_in.input_file.stem,
                                 f_in.input_file.ext)
    /\ f_keys.input_file = f_in.input_file
    /\ f_keys.output_exists = "True"

(* ------------------- one child, its pipes, the readers ----------------- *)

\* the state right after Popen (line 405): the child runs with some number of
\* lines to write to each stream, both pipes are empty, no reader exists yet
InitPipe ==
  /\ p_main = "f474"
  /\ p_child = "running"
  /\ p_next = "none"
  /\ out_left \in [Streams -> 0..MaxLines]
  /\ pipe = [s \in Streams |-> 0]
  /\ reader = [s \in Streams |-> "unstarted"]
  /\ lines_read = [s \in Streams |-> 0]
  /\ p_output = NoOutput
  /\ InitProc /\ InitThreads /\ FileOff /\ CmdOff /\ LineOff /\ SideOff

\* the child is inside a write to stream s that cannot complete
Blocked(s) == p_child = "running" /\ p_next = s /\ pipe[s] = PipeCap

\* the child turns to a stream it still has a line for
ChildChoose(s) ==
  /\ p_child = "running"
  /\ p_next = "none"
  /\ out_left[s] > 0
  /\ p_next' = s
  /\ UNCHANGED <<p_output, p_main, p_child, out_left, pipe, reader, lines_read,
                 procVars, threadVars, fileVars>>

\* a write completes when the pipe has room
ChildWrite ==
  /\ p_child = "running"
  /\ p_next \in Streams
  /\ pipe[p_next] < PipeCap
  /\ pipe' = [pipe EXCEPT ![p_next] = @ + 1]
  /\ out_left' = [out_left EXCEPT ![p_next] = @ - 1]
  /\ p_next' = "none"
  /\ UNCHANGED <<p_output, p_main, p_child, reader, lines_read, procVars, threadVars,
                 fileVars>>

\* the child exits, which closes the write ends of both pipes
ChildExit ==
  /\ p_child = "running"
  /\ p_next = "none"
  /\ \A s \in Streams : out_left[s] = 0
  /\ p_child' = "exited"
  /\ UNCHANGED <<p_output, p_main, p_next, out_left, pipe, reader, lines_read,
                 procVars, threadVars, fileVars>>

\* the readers as one loop that drains stdout to its end before stderr
can_read_in_turn(s) ==
  /\ reader[s] = "reading"
  /\ pipe[s] > 0
  /\ s = "stderr" => reader["stdout"] = "finished"

\* lines 424 and 446: each reader thread blocks in readline on its own stream
\* only
can_read(s) == reader[s] = "reading" /\ pipe[s] > 0

\* lines 422-464: one line is taken from the pipe and appended
ReaderRead(s) ==
  /\ can_read(s)
  /\ pipe' = [pipe EXCEPT ![s] = @ - 1]
  /\ lines_read' = [lines_read EXCEPT ![s] = @ + 1]
  /\ UNCHANGED <<p_output, p_main, p_child, p_next, out_left, reader, procVars,
                 threadVars, fileVars>>

\* readline returns '' once the pipe is empty and its write end is closed
ReaderEOF(s) ==
  /\ reader[s] = "reading"
  /\ pipe[s] = 0
  /\ p_child = "exited"
  /\ reader' = [reader EXCEPT ![s] = "finished"]
  /\ UNCHANGED <<p_output, p_main, p_child, p_next, out_left, pipe, lines_read,
                 procVars, threadVars, fileVars>>

\* line 474
StartStdoutThread ==
  /\ p_main = "f474"
  /\ reader' = [reader EXCEPT !["stdout"] = "reading"]
  /\ p_main' = "f475"
  /\ UNCHANGED <<p_output, p_child, p_next, out_left, pipe, lines_read, procVars,
                 threadVars, fileVars>>

\* line 475
StartStderrThread ==
  /\ p_main = "f475"
  /\ reader' = [reader EXCEPT !["stderr"] = "reading"]
  /\ p_main' = "f478"
  /\ UNCHANGED <<p_output, p_child, p_next, out_left, pipe, lines_read, procVars,
                 threadVars, fileVars>>

\* line 478: the wait returns when the child has exited
WaitReturns ==
  /\ p_main = "f478"
  /\ p_child = "exited"
  /\ p_main' = "f481"
  /\ UNCHANGED <<p_output, p_child, p_next, out_left, pipe, reader, lines_read,
                 procVars, threadVars, fileVars>>

\* line 478: the 300 seconds pass with the child still running; the handler
\* of lines 547-568 returns, the child and the daemon readers go on
WaitTimesOut ==
  /\ p_main = "f478"
  /\ p_child = "running"
  /\ p_main' = "returned"
  /\ UNCHANGED <<p_output, p_child, p_next, out_left, pipe, reader, lines_read,
                 procVars, threadVars, fileVars>>

\* lines 481-486: each join gives up after one second, so the main thread
\* goes on whether or not the readers have finished, and joins the lines the
\* readers have appended so far into stdout and stderr
JoinReaders ==
  /\ p_main = "f481"
  /\ p_main' = "returned"
  /\ p_output' = lines_read
  /\ UNCHANGED <<p_child, p_next, out_left, pipe, reader, lines_read,
                 procVars, threadVars, fileVars>>

ChildStep ==
  \/ \E s \in Streams : ChildChoose(s)
  \/ ChildWrite
  \/ ChildExit

ReaderStep(s) ==
  \/ ReaderRead(s)
  \/ ReaderEOF(s)

MainStep ==
  \/ StartStdoutThread
  \/ StartStderrThread
  \/ WaitReturns
  \/ WaitTimesOut
  \/ JoinReaders

NextPipe ==
  \/ ChildStep
  \/ \E s \in Streams : ReaderStep(s)
  \/ MainStep

SpecPipe == InitPipe /\ [][NextPipe]_vars

\* the child, the main thread and each reader thread are scheduled
FairPipe ==
  /\ SpecPipe
  /\ WF_vars(ChildStep)
  /\ WF_vars(MainStep)
  /\ \A s \in Streams : WF_vars(ReaderStep(s))

C29_ChildGoneAtReturn == p_main = "returned" => p_child = "exited"

\* the lines the child has written or will write to stream s
lines_written(s) == lines_read[s] + pipe[s] + out_left[s]

\* C30: the stdout and stderr of the result hold every line the child wrote to
\* that stream: they are never put together while a reader still has lines to
\* append, however long the reader takes.
C30_OutputComplete ==
  p_output # NoOutput => \A s \in Streams : p_output[s] = lines_written(s)

(* ------------------------- the command builders ------------------------ *)

\* a command template is a sequence of tokens: the four placeholders, another
\* {...} field, a stray brace, a double quote, a blank, and the prefix of the
\* hint the GUI shows in the empty template field (gui.py:268)
Placeholders == {"{env}", "{program}", "{input}", "{output_dir}"}

Fields == Placeholders \cup {"{name}"}

Hint == "Use placeholders:"

TemplateTokens == Fields \cup {"{", "\"", " ", Hint}

Templates == UNION {[1..n -> TemplateTokens] : n \in 0..MaxTemplate}

\* a file path is a sequence of pieces: a character the shell gives a
\* meaning to is a piece of its own, other characters come in runs
PathPieces == {<<"in.txt">>, <<"my", " ", "in.txt">>}

\* the processor's settings (lines 13-16) and the arguments of build_command
CmdConfigs ==
  {[command_template |-> t, env_vars |-> e, processing_program |-> "prog",
    output_directory |-> d, input_file |-> x, args |-> a] :
     t \in Templates, e \in {"", "A=1"}, d \in {<<>>, <<"/D">>},
     x \in PathPieces, a \in {<<>>, <<"-v">>}}

RECURSIVE Concat(_)
\* the pieces written one after the other
Concat(ss) == IF ss = <<>> THEN "" ELSE Head(ss) \o Concat(Tail(ss))

RECURSIVE SpaceJoin(_)
\* " ".join(cmd_list), line 275
SpaceJoin(ss) ==
  IF ss = <<>> THEN ""
  ELSE IF Len(ss) = 1 THEN ss[1]
  ELSE ss[1] \o " " \o SpaceJoin(Tail(ss))

\* line 184 with the test for the hint text left out
is_nonempty_template(t) == t # <<>>

\* lines 184 and 243: a template is used unless it is empty or starts with
\* the hint text
is_real_template(t) == t # <<>> /\ t[1] # Hint

\* lines 85-94, re.search on each pattern: a double quote, anything but a
\* double quote, the placeholder, a double quote (patterns 1 and 3); a single
\* quote, the placeholder, a single quote (pattern 2); pattern 4 asks for the
\* start of the text after a quote and a bracket, which no text has
is_placeholder_quoted(t, placeholder) ==
  \/ \E a \in 1..Len(t), j \in 1..Len(t) :
       /\ a < j /\ j < Len(t)
       /\ t[a] = "\"" /\ t[j] = placeholder /\ t[j + 1] = "\""
       /\ \A k \in (a + 1)..(j - 1) : t[k] # "\""
  \/ \E j \in 2..(Len(t) - 1) :
       t[j - 1] = "'" /\ t[j] = placeholder /\ t[j + 1] = "'"

RECURSIVE Flatten(_)
\* the sequences written one after the other
Flatten(ss) == IF ss = <<>> THEN <<>> ELSE Head(ss) \o Flatten(Tail(ss))

\* the backquote character, which a string of this language cannot hold
Backquote == "<backquote>"

\* lines 112-118: the keys of escape_map when the path stands in quotes
escape_map_quoted == <<"\"", Backquote, "$", "\\", "!">>

\* lines 121-152: the keys of escape_map when the path stands bare
escape_map_bare ==
  <<"\"", "'", Backquote, "$", "\\", "!", "&", "|", ";", "<", ">", "(", ")", "{",
    "}", "[", "]", "*", "?", "~", "#", "\t", "\n", "\r", " ">>

\* str.replace(char, "\\" + char) on a path
replace(path, char) ==
  Flatten([k \in 1..Len(path) |->
             IF path[k] = char THEN <<"\\", char>> ELSE <<path[k]>>])

\* the keys in the order of the dictionary, the backslash where it stands
replace_order_of_map(keys) == keys

\* lines 155-162: the backslash first, then the other keys in their order
replace_order(keys) ==
  <<"\\">> \o SelectSeq(keys, LAMBDA c : c # "\\")

RECURSIVE replace_each(_, _)
\* one replace after the other
replace_each(path, keys) ==
  IF keys = <<>> THEN path
  ELSE replace_each(replace(path, Head(keys)), Tail(keys))

\* the keys that occur in the path: replacing any other changes nothing
occurring(path, keys) ==
  SelectSeq(keys, LAMBDA c : \E k \in 1..Len(path) : path[k] = c)

\* the order of the replacements for each of the two maps
order_quoted == replace_order(escape_map_quoted)

order_bare == replace_order(escape_map_bare)

\* lines 109-164 with raw_escape: an empty path comes back as it is, in any
\* other each key of the map is replaced by a backslash and the key
escape_path_for_shell(path, already_quoted) ==
  IF path = <<>> THEN path
  ELSE replace_each(path, occurring(path, IF already_quoted THEN order_quoted
                                         ELSE order_bare))

\* lines 186, 190 and 245, 249
escaped_input(cfg) ==
  escape_path_for_shell(cfg.input_file,
                        is_placeholder_quoted(cfg.command_template, "{input}"))

\* lines 187, 191 and 246, 250
escaped_output(cfg) ==
  IF cfg.output_directory # <<>>
  THEN escape_path_for_shell(cfg.output_directory,
         is_placeholder_quoted(cfg.command_template, "{output_dir}"))
  ELSE <<>>

\* the keyword arguments of format at lines 195-200, each a text in pieces
command_kwargs(cfg) ==
  ("{env}" :> <<cfg.env_vars>>) @@ ("{program}" :> <<cfg.processing_program>>)
    @@ ("{input}" :> escaped_input(cfg)) @@ ("{output_dir}" :> escaped_output(cfg))

\* the keyword arguments of format at lines 254-258: no env
display_kwargs(cfg) ==
  ("{program}" :> <<cfg.processing_program>>)
    @@ ("{input}" :> escaped_input(cfg)) @@ ("{output_dir}" :> escaped_output(cfg))

RECURSIVE format_error(_, _)
\* str.format reads the template left to right: a stray brace raises
\* ValueError, a field that is no keyword argument raises KeyError
format_error(t, kw) ==
  IF t = <<>> THEN ""
  ELSE IF Head(t) = "{" THEN "ValueError"
  ELSE IF Head(t) \in Fields /\ Head(t) \notin DOMAIN kw THEN "KeyError"
  ELSE format_error(Tail(t), kw)

\* str.format without error: each field replaced by its argument
format_pieces(t, kw) ==
  Flatten([k \in 1..Len(t) |-> IF t[k] \in DOMAIN kw THEN kw[t[k]] ELSE <<t[k]>>])

\* the text str.format returns
format_text(t, kw) == Concat(format_pieces(t, kw))

\* lines 204-207 and 210-213: the fallback command of build_command
cmd_template_fallback(cfg) ==
  (IF cfg.env_vars # "" THEN cfg.env_vars \o " " ELSE "")
    \o cfg.processing_program \o " " \o Concat(escaped_input(cfg))
    \o (IF escaped_output(cfg) # <<>>
        THEN " " \o Concat(escaped_output(cfg)) ELSE "")

\* lines 262-264 and 268-270: the fallback command of build_command_string
fallback_cmd(cfg) ==
  cfg.processing_program \o " " \o Concat(escaped_input(cfg))
    \o (IF escaped_output(cfg) # <<>>
        THEN " " \o Concat(escaped_output(cfg)) ELSE "")

\* build_command as written with the clause at line 201 only
handles_keyerror_only(e) == e = "KeyError"

\* lines 201 and 208: except KeyError, except Exception
handles(e) == e \in {"KeyError", "ValueError"}

\* lines 218-230: the argument vector of the default command
cmd(cfg) ==
  <<cfg.processing_program>> \o cfg.args \o <<Concat(cfg.input_file)>>
    \o (IF cfg.output_directory # <<>>
        THEN <<Concat(cfg.output_directory)>> ELSE <<>>)

\* lines 184-230, build_command on the strings
build_command_tuple(cfg) ==
  IF is_real_template(cfg.command_template)
  THEN LET e == format_error(cfg.command_template, command_kwargs(cfg))
       IN IF e = ""
          THEN [raises |-> FALSE, use_shell |-> TRUE,
                cmd_list |-> <<format_text(cfg.command_template,
                                           command_kwargs(cfg))>>]
          ELSE IF handles(e)
          THEN [raises |-> FALSE, use_shell |-> TRUE,
                cmd_list |-> <<cmd_template_fallback(cfg)>>]
          ELSE [raises |-> TRUE, use_shell |-> FALSE, cmd_list |-> <<>>]
  ELSE [raises |-> FALSE, use_shell |-> FALSE, cmd_list |-> cmd(cfg)]

\* lines 243-275, build_command_string on the strings
build_command_display(cfg) ==
  IF is_real_template(cfg.command_template)
  THEN IF format_error(cfg.command_template, display_kwargs(cfg)) = ""
       THEN format_text(cfg.command_template, display_kwargs(cfg))
       ELSE fallback_cmd(cfg)
  ELSE SpaceJoin(build_command_tuple(cfg).cmd_list)

InitCmd ==
  /\ c_pc = "start"
  /\ c_cfg \in CmdConfigs
  /\ c_cmd = NoCommand
  /\ c_string = ""
  /\ InitProc /\ InitThreads /\ FileOff /\ LineOff /\ PipeOff /\ SideOff

\* line 385: build_command(normalized_input_file, args)
CBuildCommand ==
  /\ c_pc = "start"
  /\ LET r == build_command_tuple(c_cfg)
     IN /\ c_pc' = IF r.raises THEN "raised" ELSE "built"
        /\ c_cmd' = [cmd_list |-> r.cmd_list, use_shell |-> r.use_shell]
  /\ UNCHANGED <<c_cfg, c_string, sideVars, procVars, threadVars, callVars, lineVars,
                 pipeVars>>

\* line 389: build_command_string(normalized_input_file, args)
CBuildCommandString ==
  /\ c_pc = "built"
  /\ c_string' = build_command_display(c_cfg)
  /\ c_pc' = "shown"
  /\ UNCHANGED <<c_cfg, c_cmd, sideVars, procVars, threadVars, callVars, lineVars,
                 pipeVars>>

NextCmd ==
  \/ CBuildCommand
  \/ CBuildCommandString

SpecCmd == InitCmd /\ [][NextCmd]_vars

(* ------------------------ claims: command builders --------------------- *)

\* C17: with an empty template or the hint text as template, build_command
\* returns the argument vector [program, extra args, input path, output
\* directory], the output directory only when non-empty, with use_shell
\* false.
C17_DefaultCommand ==
  (/\ c_pc \in {"built", "shown"}
   /\ \/ c_cfg.command_template = <<>>
      \/ c_cfg.command_template[1] = Hint) =>
    /\ ~c_cmd.use_shell
    /\ c_cmd.cmd_list =
         <<c_cfg.processing_program>> \o c_cfg.args
           \o <<Concat(c_cfg.input_file)>>
           \o (IF c_cfg.output_directory = <<>> THEN <<>>
               ELSE <<Concat(c_cfg.output_directory)>>)

C17_Witness ==
  /\ c_pc = "built"
  /\ c_cfg.command_template # <<>>
  /\ c_cfg.command_template[1] = Hint
  /\ ~c_cmd.use_shell
  /\ c_cmd.cmd_list = <<"prog", "-v", "my in.txt", "/D">>

C19_DisplayIsCommand ==
  c_pc = "shown" =>
    c_string = IF c_cmd.use_shell THEN c_cmd.cmd_list[1]
               ELSE SpaceJoin(c_cmd.cmd_list)

(* ------------------- quotes around a placeholder --------------------- *)

MaxQuoteTemplate == 3

\* templates that set quotes about the path placeholders: the placeholders,
\* the two quotes, a blank, and a suffix written after a placeholder
QuoteTokens == {"{input}", "{output_dir}", "\"", "'", " ", ".bak"}

QuoteTemplates == UNION {[1..n -> QuoteTokens] : n \in 0..MaxQuoteTemplate}

QuoteConfigs ==
  {[command_template |-> t, env_vars |-> "", processing_program |-> "prog",
    output_directory |-> <<"/D">>, input_file |-> x, args |-> <<>>] :
     t \in QuoteTemplates, x \in PathPieces}

InitQuote ==
  /\ c_pc = "start"
  /\ c_cfg \in QuoteConfigs
  /\ c_cmd = NoCommand
  /\ c_string = ""
  /\ InitProc /\ InitThreads /\ FileOff /\ LineOff /\ PipeOff /\ SideOff

\* the command builders on templates with quotes
SpecQuote == InitQuote /\ [][NextCmd]_vars

\* a quote stands right before the placeholder
quote_precedes(t, placeholder) ==
  \E j \in 2..Len(t) : t[j] = placeholder /\ t[j - 1] \in {"\"", "'"}

\* C24: is_placeholder_quoted is true for every template in which a double or
\* a single quote stands right before the placeholder, whatever follows the
\* placeholder, and false when the template does not hold the placeholder.
C24_QuoteBeforePlaceholder ==
  c_pc # "start" =>
    \A placeholder \in {"{input}", "{output_dir}"} :
      LET t == c_cfg.command_template
      IN /\ quote_precedes(t, placeholder) => is_placeholder_quoted(t, placeholder)
         /\ (\A j \in 1..Len(t) : t[j] # placeholder) =>
              ~is_placeholder_quoted(t, placeholder)

(* ------------------- the command as the shell reads it ----------------- *)

MaxPath == 2

\* the characters of a path: a letter, and the characters the shell gives a
\* meaning to
ShellChars == {"a", " ", "\"", "'", "\\", "$", Backquote, "\t", "\n", "!"}

ShellPaths == UNION {[1..n -> ShellChars] : n \in 0..MaxPath}

\* the output directory: a name of one character
ShellDirs == {d \in ShellPaths : Len(d) = 1}

BareTemplate == <<"{program}", " ", "{input}", " ", "{output_dir}">>

DoubleQuotedTemplate ==
  <<"{program}", " ", "\"", "{input}", "\"", " ", "\"", "{output_dir}", "\"">>

SingleQuotedTemplate ==
  <<"{program}", " ", "'", "{input}", "'", " ", "'", "{output_dir}", "'">>

ShellTemplates == {BareTemplate, DoubleQuotedTemplate, SingleQuotedTemplate}

ShellConfigs ==
  {[command_template |-> t, env_vars |-> "", processing_program |-> "prog",
    output_directory |-> d, input_file |-> x, args |-> <<>>] :
     t \in ShellTemplates, d \in ShellDirs, x \in ShellPaths}

\* what the shell puts in a word where it expands a parameter or a command
Expansion == "<expansion>"

\* the word that stands for the start of another command
NewCommand == "<new command>"

\* the shell finds no closing quote and runs nothing
SyntaxError == <<<<"<syntax error>">>>>

RECURSIVE sh_words(_, _, _, _, _)
\* Popen(cmd, shell=True), lines 405-414: /bin/sh -c cmd splits the command
\* into words. Outside quotes a backslash makes the next character literal (a
\* backslash and a newline are dropped), blanks and tabs end a word, a newline
\* ends the command; within double quotes a backslash is special only before
\* a dollar, a backquote, a double quote, a backslash and a newline; within
\* single quotes every character is literal.
sh_words(text, mode, word, started, words) ==
  IF text = <<>>
  THEN IF mode # "bare" THEN SyntaxError
       ELSE IF started THEN Append(words, word) ELSE words
  ELSE
    LET c == Head(text)
        rest == Tail(text)
    IN CASE mode = "single" ->
              IF c = "'" THEN sh_words(rest, "bare", word, TRUE, words)
              ELSE sh_words(rest, "single", Append(word, c), TRUE, words)
         [] mode = "double" ->
              IF c = "\"" THEN sh_words(rest, "bare", word, TRUE, words)
              ELSE IF c = "\\" /\ rest # <<>>
                        /\ Head(rest) \in {"$", Backquote, "\"", "\\"}
              THEN sh_words(Tail(rest), "double", Append(word, Head(rest)),
                            TRUE, words)
              ELSE IF c = "\\" /\ rest # <<>> /\ Head(rest) = "\n"
              THEN sh_words(Tail(rest), "double", word, TRUE, words)
              ELSE IF c \in {"$", Backquote}
              THEN sh_words(rest, "double", Append(word, Expansion), TRUE, words)
              ELSE sh_words(rest, "double", Append(word, c), TRUE, words)
         [] OTHER ->
              IF c = "\\"
              THEN IF rest = <<>>
                   THEN sh_words(rest, "bare", Append(word, c), TRUE, words)
                   ELSE IF Head(rest) = "\n"
                   THEN sh_words(Tail(rest), "bare", word, started, words)
                   ELSE sh_words(Tail(rest), "bare", Append(word, Head(rest)),
                                 TRUE, words)
              ELSE IF c = "'" THEN sh_words(rest, "single", word, TRUE, words)
              ELSE IF c = "\"" THEN sh_words(rest, "double", word, TRUE, words)
              ELSE IF c \in {" ", "\t"}
              THEN sh_words(rest, "bare", <<>>, FALSE,
                            IF started THEN Append(words, word) ELSE words)
              ELSE IF c = "\n"
              THEN sh_words(rest, "bare", <<>>, FALSE,
                            Append(IF started THEN Append(words, word)
                                   ELSE words, <<NewCommand>>))
              ELSE IF c \in {"$", Backquote}
              THEN sh_words(rest, "bare", Append(word, Expansion), TRUE, words)
              ELSE sh_words(rest, "bare", Append(word, c), TRUE, words)

InitShell ==
  /\ s_pc = "start"
  /\ s_cfg \in ShellConfigs
  /\ s_cmd = <<>>
  /\ s_argv = <<>>
  /\ InitProc /\ InitThreads /\ FileOff /\ CmdOff /\ LineOff /\ PipeOff
  /\ GuiOff /\ EnvOff /\ ProgOff

\* line 385, build_command on a real template (lines 184-200): the command
\* string, kept in pieces
SBuildCommand ==
  /\ s_pc = "start"
  /\ build_command_tuple(s_cfg).use_shell
  /\ s_cmd' = format_pieces(s_cfg.command_template, command_kwargs(s_cfg))
  /\ s_pc' = "built"
  /\ UNCHANGED <<s_cfg, s_argv, guiVars, envVars, progVars, procVars,
                 threadVars, callVars, cmdVars, lineVars, pipeVars>>

\* lines 405-414: Popen with shell=True, the shell splits the command
SPopen ==
  /\ s_pc = "built"
  /\ s_argv' = sh_words(s_cmd, "bare", <<>>, FALSE, <<>>)
  /\ s_pc' = "run"
  /\ UNCHANGED <<s_cfg, s_cmd, guiVars, envVars, progVars, procVars,
                 threadVars, callVars, cmdVars, lineVars, pipeVars>>

NextShell ==
  \/ SBuildCommand
  \/ SPopen

SpecShell == InitShell /\ [][NextShell]_vars

\* the characters the claim names: blanks, quotes, backslash, dollar,
\* backquote, tab, newline (and letters)
Named(path) == \A k \in 1..Len(path) : path[k] # "!"

\* C23: for the template "{program} {input} {output_dir}" and the templates
\* that set the placeholders in double or in single quotes, the shell makes of
\* the built command exactly the words program, input path, output directory,
\* each path one word with its own characters, whatever blanks, quotes,
\* backslashes, dollars, backquotes, tabs and newlines the paths hold.
C23_ShellRoundTrip ==
  (/\ s_pc = "run"
   /\ s_cfg.input_file # <<>>
   /\ Named(s_cfg.input_file) /\ Named(s_cfg.output_directory)) =>
    s_argv = <<<<"prog">>, s_cfg.input_file, s_cfg.output_directory>>

\* lines 112-118: the characters escaped within quotes
QuotedSet == {"\"", Backquote, "$", "\\", "!"}

\* lines 121-152: the characters escaped outside quotes
BareSet ==
  QuotedSet \cup {"'", "&", "|", ";", "<", ">", "(", ")", "{", "}", "[", "]",
                  "*", "?", "~", "#", "\t", "\n", "\r", " "}

\* the path with one backslash before each character of the set
each_once(path, set) ==
  Flatten([k \in 1..Len(path) |->
             IF path[k] \in set THEN <<"\\", path[k]>> ELSE <<path[k]>>])

\* C25: escape_path_for_shell gives back an empty path as it is; standing in
\* quotes it sets one backslash before each double quote, backquote, dollar,
\* backslash and exclamation mark and leaves the rest; standing bare it sets
\* one backslash before each shell metacharacter and blank character; no
\* backslash it wrote is escaped again, and the order of the characters stays.
C25_EscapeEachOnce ==
  s_pc # "start" =>
    /\ escape_path_for_shell(<<>>, TRUE) = <<>>
    /\ escape_path_for_shell(<<>>, FALSE) = <<>>
    /\ escape_path_for_shell(s_cfg.input_file, TRUE)
         = each_once(s_cfg.input_file, QuotedSet)
    /\ escape_path_for_shell(s_cfg.input_file, FALSE)
         = each_once(s_cfg.input_file, BareSet)
    /\ s_cmd = format_pieces(s_cfg.command_template,
         ("{program}" :> <<"prog">>)
           @@ ("{input}" :>
                each_once(s_cfg.input_file,
                          IF s_cfg.command_template = BareTemplate
                          THEN BareSet ELSE QuotedSet))
           @@ ("{output_dir}" :>
                each_once(s_cfg.output_directory,
                          IF s_cfg.command_template = BareTemplate
                          THEN BareSet ELSE QuotedSet)))

C25_Witness ==
  /\ s_pc = "built"
  /\ s_cfg.command_template = DoubleQuotedTemplate
  /\ s_cfg.input_file = <<"\\", "\"">>
  /\ s_cfg.output_directory = <<" ">>
  /\ s_cmd = <<"prog", " ", "\"", "\\", "\\", "\\", "\"", "\"", " ", "\"",
               " ", "\"">>

(* ------------------------ the progress extractor ----------------------- *)

\* an output line is a sequence of tokens: runs of digits, and the pieces of
\* text the patterns look for
Num(n) == [kind |-> "num", value |-> n]

Word(w) == [kind |-> w, value |-> 0]

Numbers == {75 * k : k \in 0..MaxNumber}

Words == {"%", "/", " ", "of", "out", "frame"}

LineTokens == {Num(n) : n \in Numbers} \cup {Word(w) : w \in Words}

\* two runs of digits side by side are one run
OutputLines ==
  {l \in UNION {[1..n -> LineTokens] : n \in 0..MaxLineLen} :
     \A k \in 1..(Len(l) - 1) : ~(l[k].kind = "num" /\ l[k + 1].kind = "num")}

\* a float as a fraction
Rat(n, d) == [num |-> n, den |-> d]

\* line 909: no percentage found
NotFound == Rat(0 - 1, 1)

\* lines 832-842: (\d+)% comes first, and each of the other eight patterns
\* contains it, so a line one of them matches is decided by the first
percentage_patterns == << <<"num", "%">> >>

\* lines 861-869: frame N of M, N / M, N out of M, with \s* between the
\* parts; processing, file, item and task are patterns like frame
count_patterns ==
  << <<"frame", "sp*", "num", "sp*", "of", "sp*", "num">>,
     <<"num", "sp*", "/", "sp*", "num">>,
     <<"num", "sp*", "out", "sp*", "of", "sp*", "num">> >>

RECURSIVE match_at(_, _, _, _)
\* re: the pattern matched against the line from one position on, with the
\* groups captured so far
match_at(line, pos, pat, groups) ==
  IF pat = <<>> THEN [ok |-> TRUE, groups |-> groups]
  ELSE IF Head(pat) = "sp*"
  THEN IF pos <= Len(line) /\ line[pos].kind = " "
       THEN match_at(line, pos + 1, pat, groups)
       ELSE match_at(line, pos, Tail(pat), groups)
  ELSE IF pos > Len(line) THEN [ok |-> FALSE, groups |-> <<>>]
  ELSE IF Head(pat) = "num"
  THEN IF line[pos].kind = "num"
       THEN match_at(line, pos + 1, Tail(pat), Append(groups, line[pos].value))
       ELSE [ok |-> FALSE, groups |-> <<>>]
  ELSE IF line[pos].kind = Head(pat)
  THEN match_at(line, pos + 1, Tail(pat), groups)
  ELSE [ok |-> FALSE, groups |-> <<>>]

\* re.search: the match at the leftmost position that has one
search(pat, line) ==
  LET hits == {q \in 1..Len(line) : match_at(line, q, pat, <<>>).ok}
  IN IF hits = {} THEN [ok |-> FALSE, groups |-> <<>>]
     ELSE match_at(line, CHOOSE q \in hits : \A h \in hits : q <= h, pat, <<>>)

\* the value as computed, without the clamp
no_clamp(r) == r

\* lines 851 and 879: max(0, min(100, percentage))
clamp(r) ==
  IF r.num > 100 * r.den THEN Rat(100, 1)
  ELSE IF r.num < 0 THEN Rat(0, 1)
  ELSE r

RECURSIVE count_from(_, _)
\* lines 871-888 from the k-th count pattern on: a match with total > 0
\* returns; a match with total 0 goes on to the next pattern
count_from(line, k) ==
  IF k > Len(count_patterns) THEN [type |-> "none", value |-> NotFound]
  ELSE LET m == search(count_patterns[k], line)
       IN IF m.ok /\ m.groups[2] > 0
          THEN [type |-> "count",
                value |-> clamp(Rat(m.groups[1] * 100, m.groups[2]))]
          ELSE count_from(line, k + 1)

\* the count patterns tried before the percentage patterns
parse_progress_count_first(line) ==
  LET c == count_from(line, 1)
      m == search(percentage_patterns[1], line)
  IN IF c.type # "none" THEN c
     ELSE IF m.ok
     THEN [type |-> "percentage", value |-> clamp(Rat(m.groups[1], 1))]
     ELSE c

\* lines 818-890
parse_progress_from_output(line) ==
  LET m == search(percentage_patterns[1], line)
  IN IF m.ok
     THEN [type |-> "percentage", value |-> clamp(Rat(m.groups[1], 1))]
     ELSE count_from(line, 1)

\* lines 892-909
extract_percentage_from_output(line) ==
  parse_progress_from_output(line).value

\* lines 424-442 and 446-464, one turn of the reader's loop: the percentage,
\* if one is found, is appended to progress_info and handed to the callback,
\* then the parsed record is appended too
read_line(line) ==
  LET percentage == extract_percentage_from_output(line)
      progress_match == parse_progress_from_output(line)
      found == IF percentage.num >= 0
               THEN <<[type |-> "extracted", value |-> percentage]>> ELSE <<>>
  IN [progress_info |-> found \o (IF progress_match.type # "none"
                                   THEN <<progress_match>> ELSE <<>>),
      cb_progress |-> IF percentage.num >= 0 THEN <<percentage>> ELSE <<>>]

InitLine ==
  /\ l_pc = "readline"
  /\ l_stream \in Streams
  /\ l_line \in OutputLines
  /\ progress_info = <<>>
  /\ cb_progress = <<>>
  /\ InitProc /\ InitThreads /\ FileOff /\ CmdOff /\ PipeOff /\ SideOff

\* lines 424-442: read_stdout on one line
ReadStdout ==
  /\ l_pc = "readline"
  /\ l_stream = "stdout"
  /\ progress_info' = progress_info \o read_line(l_line).progress_info
  /\ cb_progress' = cb_progress \o read_line(l_line).cb_progress
  /\ l_pc' = "read"
  /\ UNCHANGED <<l_stream, l_line, sideVars, procVars, threadVars, callVars, cmdVars,
                 pipeVars>>

\* lines 446-464: read_stderr on one line
ReadStderr ==
  /\ l_pc = "readline"
  /\ l_stream = "stderr"
  /\ progress_info' = progress_info \o read_line(l_line).progress_info
  /\ cb_progress' = cb_progress \o read_line(l_line).cb_progress
  /\ l_pc' = "read"
  /\ UNCHANGED <<l_stream, l_line, sideVars, procVars, threadVars, callVars, cmdVars,
                 pipeVars>>

NextLine ==
  \/ ReadStdout
  \/ ReadStderr

SpecLine == InitLine /\ [][NextLine]_vars

(* ----------------------- claims: progress extractor -------------------- *)

InRange(r) == 0 <= r.num /\ r.num <= 100 * r.den

\* C20: for every output line the extractor returns -1 or a value within
\* [0,100], and every percentage appended to progress_info or passed to the
\* progress callback is within [0,100].
C20_ProgressInRange ==
  /\ \/ extract_percentage_from_output(l_line) = NotFound
     \/ InRange(extract_percentage_from_output(l_line))
  /\ \A k \in 1..Len(progress_info) : InRange(progress_info[k].value)
  /\ \A k \in 1..Len(cb_progress) : InRange(cb_progress[k])

C20_Witness ==
  /\ l_pc = "read"
  /\ l_line = <<Num(150), Word(" "), Word("/"), Num(75)>>
  /\ cb_progress = <<Rat(100, 1)>>
  /\ Len(progress_info) = 2

\* a run of digits right before a percent sign
HasPercent(line) ==
  \E q \in 1..(Len(line) - 1) : line[q].kind = "num" /\ line[q + 1].kind = "%"

\* the number of the leftmost such run
FirstPercent(line) ==
  line[CHOOSE q \in 1..(Len(line) - 1) :
         /\ line[q].kind = "num" /\ line[q + 1].kind = "%"
         /\ \A h \in 1..(q - 1) :
              ~(line[h].kind = "num" /\ line[h + 1].kind = "%")].value

\* the lines that are one count and nothing else
IsCount(line, x, y) ==
  line \in {<<Word("frame"), Num(x), Word("of"), Num(y)>>,
            <<Num(x), Word("/"), Num(y)>>,
            <<Num(x), Word("out"), Word("of"), Num(y)>>}

\* the fraction r is the number n
Is(r, n) == r.num = n * r.den

\* C26: percentage patterns are tried before count patterns and the first
\* match wins: "Processing: 42% complete" gives 42, "Frame 3 of 12" gives 25,
\* "150%" gives 100, a line without numbers gives no match, a count line with
\* total 0 gives no match, and a line with both a percentage and a count
\* gives the percentage.
C26_PercentageBeforeCount ==
  /\ Is(extract_percentage_from_output(
          <<Word("Processing:"), Word(" "), Num(42), Word("%"), Word(" "),
            Word("complete")>>), 42)
  /\ Is(extract_percentage_from_output(
          <<Word("frame"), Word(" "), Num(3), Word(" "), Word("of"),
            Word(" "), Num(12)>>), 25)
  /\ Is(extract_percentage_from_output(<<Num(150), Word("%")>>), 100)
  /\ l_pc = "read" =>
       /\ HasPercent(l_line) =>
            cb_progress = <<Rat(IF FirstPercent(l_line) > 100 THEN 100
                                ELSE FirstPercent(l_line), 1)>>
       /\ (\A k \in 1..Len(l_line) : l_line[k].kind # "num") =>
            cb_progress = <<>>
       /\ \A x, y \in Numbers :
            IsCount(l_line, x, y) =>
              IF y = 0 THEN cb_progress = <<>>
              ELSE /\ Len(cb_progress) = 1
                   /\ IF x > y THEN Is(cb_progress[1], 100)
                      ELSE cb_progress[1].num * y = 100 * x * cb_progress[1].den

C26_Witness ==
  /\ l_pc = "read"
  /\ l_line = <<Num(75), Word("/"), Num(150), Word("%")>>
  /\ cb_progress = <<Rat(100, 1)>>

(* ------------------ the GUI around one run: the new files -------------- *)

\* the files chosen are a.txt and b.txt of one input directory
Stems == {"a", "b"}

FileName(stem) == stem \o ".txt"

\* processor.py:340-345 and 644-646: the expected output file of an input
ProcessedName(stem) == stem \o "_processed" \o ".txt"

FileLists ==
  {<<x>> : x \in Stems} \cup ({<<x, y>> : x, y \in Stems} \ {<<x, x>> : x \in Stems})

\* what the program does with one file: exit 0 with its arguments on stdout
\* and nothing written; exit 0 with a copy of the input written into the
\* output directory and no stdout; exit 1 with nothing written
Conducts == {"echo", "copy", "fail"}

\* the whole text of the hint (gui.py:268, 1342)
HintText ==
  <<Hint, " ", "{env}", ",", " ", "{program}", ",", " ", "{input}", ",", " ",
    "{output_dir}">>

\* the text of the template field
GuiTemplates ==
  {<<>>, <<" ">>, HintText, <<"{program}", " ", "{input}", " ", "{output_dir}">>}

\* the files that may lie in the directory before the run
OldNames == {"a.txt", "b.txt", "a_processed.txt", "old.txt"}

\* the settings of one run: normal mode (all files to one output directory,
\* which is not the input directory) or sync side by side (each file to its
\* own directory, where it lies); the program and the directory are set
GuiRuns ==
  {[mode |-> m, command_template |-> t, del_origin_file |-> del,
    dialog |-> dlg, files |-> fs, conduct |-> c, dir |-> d] :
     m \in {"normal"}, t \in GuiTemplates, del \in BOOLEAN,
     dlg \in {"none", "ok", "cancel"}, fs \in FileLists,
     c \in [1..2 -> Conducts], d \in SUBSET OldNames}
  \cup
  {[mode |-> m, command_template |-> t, del_origin_file |-> del,
    dialog |-> dlg, files |-> fs, conduct |-> c, dir |-> d] :
     m \in {"sync"}, t \in GuiTemplates, del \in BOOLEAN,
     dlg \in {"none", "ok", "cancel"}, fs \in FileLists,
     c \in [1..2 -> Conducts],
     d \in {x \in SUBSET OldNames : {"a.txt", "b.txt"} \subseteq x}}

\* gui.py:1340-1343
is_valid_command_template(t) ==
  /\ t # <<>>
  /\ \E k \in 1..Len(t) : t[k] # " "
  /\ t # HintText

\* gui.py:1011-1017 and 815-822: the files of the second listing whose
\* basename is not in the first; both listings are of one directory
find_new_files(pre_files, post_files) ==
  IF pre_files # {} /\ post_files # {}
  THEN {f \in post_files : f \notin pre_files}
  ELSE {}

\* process_file on one input with the directory as it is: the files of the
\* directory afterwards and the success key (processor.py:491-545)
run_file(dir, stem, conduct) ==
  CASE conduct = "echo" -> [dir |-> dir \cup {ProcessedName(stem)}, success |-> TRUE]
    [] conduct = "copy" -> [dir |-> dir \cup {FileName(stem)}, success |-> TRUE]
    [] conduct = "fail" -> [dir |-> dir, success |-> FALSE]

\* gui.py:1023-1044: the new files, or one line saying there are none
listing(new, rs) ==
  IF new # {} THEN new
  ELSE IF \E k \in 1..Len(rs) : ~rs[k]
       THEN {"Processing failed"}
       ELSE {"No new files created"}

InitGui ==
  /\ g_pc = "start"
  /\ g_cfg \in GuiRuns
  /\ g_dir = g_cfg.dir
  /\ g_pre = {}
  /\ g_post = {}
  /\ g_i = 0
  /\ g_results = <<>>
  /\ new_files = {}
  /\ output_listbox = {}
  /\ InitProc /\ InitThreads /\ FileOff /\ CmdOff /\ LineOff /\ PipeOff
  /\ EnvOff /\ ProgOff /\ ShellOff

\* gui.py:875-957, process_files: the template is checked, the directory is
\* listed, the dialog is shown, the batch thread is started
GProcessFiles ==
  /\ g_pc = "start"
  /\ g_cfg.mode = "normal"
  /\ IF ~is_valid_command_template(g_cfg.command_template)
     THEN /\ g_pc' = "refused"
          /\ UNCHANGED <<g_pre, output_listbox>>
     ELSE /\ output_listbox' = {}
          /\ g_pre' = g_dir
          /\ g_pc' = IF g_cfg.dialog = "cancel" THEN "cancelled" ELSE "batch"
  /\ UNCHANGED <<g_cfg, g_dir, g_post, g_i, g_results, new_files, procVars,
                 threadVars, callVars, cmdVars, lineVars, envVars, progVars, shellVars,
                 pipeVars>>

\* processor.py:604-624, process_files_batch up to the loop
GBatchStart ==
  /\ g_pc = "batch"
  /\ g_pc' = "loop"
  /\ total_files' = Len(g_cfg.files)
  /\ processing_results' = <<>>
  /\ is_processing' = TRUE
  /\ processed_count' = 0
  /\ failed_count' = 0
  /\ UNCHANGED <<g_cfg, g_dir, g_pre, g_post, g_i, g_results, new_files,
                 output_listbox, should_stop, current_file, threadVars,
                 callVars, cmdVars, lineVars, envVars, progVars, shellVars, pipeVars>>

\* processor.py:626-676, one turn of the loop with no stop request
GBatchFile ==
  /\ g_pc = "loop"
  /\ g_i < Len(g_cfg.files)
  /\ LET r == run_file(g_dir, g_cfg.files[g_i + 1], g_cfg.conduct[g_i + 1])
     IN /\ g_dir' = r.dir
        /\ g_results' = Append(g_results, r.success)
        /\ IF r.success
           THEN /\ processed_count' = processed_count + 1
                /\ UNCHANGED failed_count
           ELSE /\ failed_count' = failed_count + 1
                /\ UNCHANGED processed_count
  /\ g_i' = g_i + 1
  /\ UNCHANGED <<g_pc, g_cfg, g_pre, g_post, new_files, output_listbox,
                 is_processing, should_stop, total_files, current_file,
                 processing_results, threadVars, callVars, cmdVars, lineVars,
                 envVars, progVars, shellVars, pipeVars>>

\* processor.py:678-681, the loop is over; the thread calls the callback,
\* gui.py:989-1075, processing_complete: the directory is listed again and
\* the new files are shown (the records have no "file" key, so line 1051
\* removes no input file)
processing_complete ==
  /\ g_pc = "loop"
  /\ g_i = Len(g_cfg.files)
  /\ is_processing' = FALSE
  /\ g_post' = g_dir
  /\ new_files' = find_new_files(g_pre, g_dir)
  /\ output_listbox' = listing(new_files', g_results)
  /\ g_pc' = "done"
  /\ UNCHANGED <<g_cfg, g_dir, g_pre, g_i, g_results, should_stop,
                 processed_count, failed_count, total_files, current_file,
                 processing_results, threadVars, callVars, cmdVars, lineVars,
                 envVars, progVars, shellVars, pipeVars>>

\* gui.py:700-749: the dialog, the check of the template, the counters
GSyncStart ==
  /\ g_pc = "start"
  /\ g_cfg.mode = "sync"
  /\ IF g_cfg.dialog = "cancel"
     THEN /\ g_pc' = "cancelled"
          /\ UNCHANGED <<is_processing, processed_count, failed_count,
                         output_listbox>>
     ELSE IF ~is_valid_command_template(g_cfg.command_template)
     THEN /\ g_pc' = "refused"
          /\ UNCHANGED <<is_processing, processed_count, failed_count,
                         output_listbox>>
     ELSE /\ g_pc' = "sync"
          /\ is_processing' = TRUE
          /\ processed_count' = 0
          /\ failed_count' = 0
          /\ output_listbox' = {}
  /\ UNCHANGED <<g_cfg, g_dir, g_pre, g_post, g_i, g_results, new_files,
                 should_stop, total_files, current_file, processing_results,
                 threadVars, callVars, cmdVars, lineVars, envVars, progVars, shellVars,
                 pipeVars>>

\* gui.py:752-855, one turn of the loop: the file's directory is listed, the
\* file is processed, the directory is listed again, the new files are shown,
\* the input is removed if that is asked for and the file succeeded
GSyncFile ==
  /\ g_pc = "sync"
  /\ g_i < Len(g_cfg.files)
  /\ LET stem == g_cfg.files[g_i + 1]
         r == run_file(g_dir, stem, g_cfg.conduct[g_i + 1])
     IN /\ g_pre' = g_dir
        /\ g_post' = r.dir
        /\ new_files' = find_new_files(g_dir, r.dir)
        /\ output_listbox' = output_listbox \cup new_files'
        /\ g_results' = Append(g_results, r.success)
        /\ IF r.success
           THEN /\ processed_count' = processed_count + 1
                /\ UNCHANGED failed_count
                /\ g_dir' = IF g_cfg.del_origin_file
                            THEN r.dir \ {FileName(stem)}
                            ELSE r.dir
           ELSE /\ failed_count' = failed_count + 1
                /\ UNCHANGED processed_count
                /\ g_dir' = r.dir
  /\ g_i' = g_i + 1
  /\ UNCHANGED <<g_pc, g_cfg, is_processing, should_stop, total_files,
                 current_file, processing_results, threadVars, callVars,
                 cmdVars, lineVars, envVars, progVars, shellVars, pipeVars>>

\* gui.py:857-873
GSyncEnd ==
  /\ g_pc = "sync"
  /\ g_i = Len(g_cfg.files)
  /\ is_processing' = FALSE
  /\ g_pc' = "done"
  /\ UNCHANGED <<g_cfg, g_dir, g_pre, g_post, g_i, g_results, new_files,
                 output_listbox, should_stop, processed_count, failed_count,
                 total_files, current_file, processing_results, threadVars,
                 callVars, cmdVars, lineVars, envVars, progVars, shellVars, pipeVars>>

NextGui ==
  \/ GProcessFiles
  \/ GBatchStart
  \/ GBatchFile
  \/ processing_complete
  \/ GSyncStart
  \/ GSyncFile
  \/ GSyncEnd

SpecGui == InitGui /\ [][NextGui]_vars

\* the two listings of a directory have been compared
Compared ==
  \/ g_pc = "done" /\ g_cfg.mode = "normal"
  \/ g_pc \in {"sync", "done"} /\ g_cfg.mode = "sync" /\ g_i > 0

\* C21: the list of new files is exactly the files of the second listing whose
\* basename is not in the first, whatever the two listings are (an empty first
\* listing too); it is empty when the listings are equal, and computing it
\* again on the same pair gives the same list.
C21_NewFilesAreTheDifference ==
  Compared =>
    /\ new_files = {f \in g_post : f \notin g_pre}
    /\ g_pre = g_post => new_files = {}
    /\ find_new_files(g_pre, g_post) = new_files

\* the batch of a.txt and b.txt with echo, no template, and an empty output
\* directory
EchoBatch ==
  /\ g_cfg.mode = "normal"
  /\ g_cfg.files = <<"a", "b">>
  /\ g_cfg.conduct = [k \in 1..2 |-> "echo"]
  /\ g_cfg.command_template = <<>>
  /\ g_cfg.dir = {}

\* C22: the batch over a.txt and b.txt with echo, an empty template and an
\* empty output directory ends with processed_count 2 and failed_count 0, and
\* the new files reported are a.txt and b.txt in the output directory.
C22_EchoBatchReportsTwoFiles ==
  EchoBatch /\ g_pc \in {"done", "refused"} =>
    /\ processed_count = 2
    /\ failed_count = 0
    /\ new_files = {"a.txt", "b.txt"}
    /\ {"a.txt", "b.txt"} \subseteq g_dir

(* ----------------------- the child's environment ---------------------- *)

MaxEnvLen == 6

\* the env_vars setting, character by character
EnvChars == {"A", "1", "=", " "}

EnvStrings == UNION {[1..n -> EnvChars] : n \in 0..MaxEnvLen}

\* os.environ of the processor: A is set, 1 is not
Parent == (<<"A">> :> <<"0">>) @@ (<<"H">> :> <<"/">>)

RECURSIVE split(_, _, _)
\* str.split(): the runs of characters between blanks, left to right
split(text, token, tokens) ==
  IF text = <<>>
  THEN IF token = <<>> THEN tokens ELSE Append(tokens, token)
  ELSE IF Head(text) = " "
  THEN split(Tail(text), <<>>,
             IF token = <<>> THEN tokens ELSE Append(tokens, token))
  ELSE split(Tail(text), Append(token, Head(text)), tokens)

\* the positions of the equals signs of a token
equals_at(token) == {q \in 1..Len(token) : token[q] = "="}

\* str.rsplit('=', 1): the token cut at its last equals sign
split_at_last(token) ==
  LET q == CHOOSE x \in equals_at(token) : \A y \in equals_at(token) : y <= x
  IN [key |-> SubSeq(token, 1, q - 1), value |-> SubSeq(token, q + 1, Len(token))]

\* line 401, str.split('=', 1): the token cut at its first equals sign
split_at_first(token) ==
  LET q == CHOOSE x \in equals_at(token) : \A y \in equals_at(token) : x <= y
  IN [key |-> SubSeq(token, 1, q - 1), value |-> SubSeq(token, q + 1, Len(token))]

\* line 402, env[key] = value
set_item(env, key, value) ==
  [k \in DOMAIN env \cup {key} |-> IF k = key THEN value ELSE env[k]]

RECURSIVE parse_env(_, _)
\* lines 399-402: the loop over the tokens
parse_env(tokens, env) ==
  IF tokens = <<>> THEN env
  ELSE IF equals_at(Head(tokens)) # {}
  THEN parse_env(Tail(tokens),
                 set_item(env, split_at_first(Head(tokens)).key,
                          split_at_first(Head(tokens)).value))
  ELSE parse_env(Tail(tokens), env)

InitEnv ==
  /\ e_pc = "f394"
  /\ e_env_vars \in EnvStrings
  /\ e_env = NoEnv
  /\ e_child = NoEnv
  /\ InitProc /\ InitThreads /\ FileOff /\ CmdOff /\ LineOff /\ PipeOff
  /\ GuiOff /\ ProgOff /\ ShellOff

\* lines 394-402
EPrepare ==
  /\ e_pc = "f394"
  /\ e_env' = IF e_env_vars # <<>>
              THEN parse_env(split(e_env_vars, <<>>, <<>>), Parent)
              ELSE NoEnv
  /\ e_pc' = "f405"
  /\ UNCHANGED <<e_env_vars, e_child, guiVars, progVars, shellVars, procVars,
                 threadVars, callVars, cmdVars, lineVars, pipeVars>>

\* lines 405-414: Popen gives the child env, or with env=None the
\* environment of the processor
EPopen ==
  /\ e_pc = "f405"
  /\ e_child' = IF e_env = NoEnv THEN Parent ELSE e_env
  /\ e_pc' = "f417"
  /\ UNCHANGED <<e_env_vars, e_env, guiVars, progVars, shellVars, procVars,
                 threadVars, callVars, cmdVars, lineVars, pipeVars>>

NextEnv ==
  \/ EPrepare
  \/ EPopen

SpecEnv == InitEnv /\ [][NextEnv]_vars

\* the characters a..b of the text are a token: a run without blanks that no
\* run without blanks contains
IsToken(text, a, b) ==
  /\ a <= b
  /\ \A k \in a..b : text[k] # " "
  /\ a = 1 \/ text[a - 1] = " "
  /\ b = Len(text) \/ text[b + 1] = " "

\* the token a..b of the text has its first equals sign at q
FirstEquals(text, a, b, q) ==
  /\ q \in a..b
  /\ text[q] = "="
  /\ \A k \in a..(q - 1) : text[k] # "="

\* the entries the text asks for: <<start of the token, key, value>>
Entries(text) ==
  {<<a, SubSeq(text, a, q - 1), SubSeq(text, q + 1, b)>> :
     <<a, b, q>> \in {x \in (1..Len(text)) \X (1..Len(text)) \X (1..Len(text)) :
                      IsToken(text, x[1], x[2])
                        /\ FirstEquals(text, x[1], x[2], x[3])}}

\* C28: with a non-empty env string the child's environment is the parent's
\* with one entry per blank-separated token that holds an equals sign, cut at
\* the first equals sign, a later token for a key overriding an earlier one;
\* tokens without an equals sign are ignored; with an empty env string the
\* child has the parent's environment unchanged.
C28_ChildEnvironment ==
  e_pc = "f417" =>
    LET asked == Entries(e_env_vars)
    IN /\ DOMAIN e_child = DOMAIN Parent \cup {x[2] : x \in asked}
       /\ \A k \in DOMAIN e_child :
            IF \E x \in asked : x[2] = k
            THEN \E x \in asked :
                   /\ x[2] = k
                   /\ e_child[k] = x[3]
                   /\ \A y \in asked : y[2] = k => y[1] <= x[1]
            ELSE e_child[k] = Parent[k]
       /\ e_env_vars = <<>> => e_child = Parent

C28_Witness ==
  /\ e_pc = "f417"
  /\ e_env_vars = <<"A", "=", "=", " ", "A", "1">>
  /\ e_child = (<<"A">> :> <<"=">>) @@ (<<"H">> :> <<"/">>)

(* ------------------ the batch's progress callback ---------------------- *)

\* the percentages the readers find in the lines of a child
Percentages == {0, 50, 100}

\* a batch of b_n files right before the loop of line 626: i is not bound
InitProgress ==
  /\ b_pc = "f626"
  /\ b_n \in 1..MaxFiles
  /\ b_i = NoAttr
  /\ b_left = [k \in 1..b_n |-> 0]
  /\ b_call = NoCall
  /\ InitProc /\ InitThreads /\ FileOff /\ CmdOff /\ LineOff /\ PipeOff
  /\ GuiOff /\ EnvOff /\ ShellOff

\* lines 626-659 and 405-475: the loop binds i to the next index, defines
\* file_progress_callback and calls process_file, which starts the child and
\* the two readers; the child has some lines with a percentage to write
BNextFile ==
  /\ b_pc = "f626"
  /\ b_i + 1 < b_n
  /\ b_i' = b_i + 1
  /\ \E lines \in 0..MaxLines : b_left' = [b_left EXCEPT ![b_i' + 1] = lines]
  /\ b_pc' = "f659"
  /\ UNCHANGED <<b_n, b_call, guiVars, envVars, shellVars, procVars,
                 threadVars, callVars, cmdVars, lineVars, pipeVars>>

\* lines 649-656, file_progress_callback as Python runs it: i is looked up in
\* the frame of process_files_batch when the callback is called
file_progress_callback(percentage) == Rat(100 * b_i + percentage, b_n)

\* lines 424-437 and 446-459: a reader of the child of file k reads a line,
\* finds a percentage and calls the callback it was given
BReaderLine(k) ==
  /\ b_pc # "off"
  /\ k \in 1..b_n
  /\ b_left[k] > 0
  /\ b_left' = [b_left EXCEPT ![k] = @ - 1]
  /\ \E percentage \in Percentages :
       b_call' = [file |-> k - 1, percentage |-> percentage,
                  file_progress |-> file_progress_callback(percentage)]
  /\ UNCHANGED <<b_pc, b_i, b_n, guiVars, envVars, shellVars, procVars,
                 threadVars, callVars, cmdVars, lineVars, pipeVars>>

\* lines 478-545 and 659-676: the child has exited, each join has returned,
\* the readers done or not, process_file returns and the result is counted
BFileReturns ==
  /\ b_pc = "f659"
  /\ b_pc' = "f626"
  /\ \E success \in BOOLEAN :
       IF success
       THEN processed_count' = processed_count + 1 /\ UNCHANGED failed_count
       ELSE failed_count' = failed_count + 1 /\ UNCHANGED processed_count
  /\ UNCHANGED <<b_i, b_n, b_left, b_call, guiVars, envVars, shellVars,
                 is_processing, should_stop, total_files, current_file,
                 processing_results, threadVars, callVars, cmdVars, lineVars,
                 pipeVars>>

\* lines 678-681: the loop is over
BEnd ==
  /\ b_pc = "f626"
  /\ b_i + 1 = b_n
  /\ b_pc' = "f681"
  /\ UNCHANGED <<b_i, b_n, b_left, b_call, guiVars, envVars, shellVars,
                 procVars, threadVars, callVars, cmdVars, lineVars, pipeVars>>

NextProgress ==
  \/ BNextFile
  \/ \E k \in 1..MaxFiles : BReaderLine(k)
  \/ BFileReturns
  \/ BEnd

SpecProgress == InitProgress /\ [][NextProgress]_vars

\* C27: the value handed to the batch's progress callback for a line of the
\* file at index i, of n files, with local percentage p, is (i + p/100)/n*100
\* with i the index of the file whose child wrote the line; it lies between
\* 100*i/n and 100*(i+1)/n and within [0,100], also when a reader of file i
\* delivers lines after the loop has gone on to the next file.
C27_GlobalProgressOfTheFile ==
  b_call # NoCall =>
    LET v == b_call.file_progress
    IN /\ v.num * b_n = (100 * b_call.file + b_call.percentage) * v.den
       /\ 100 * b_call.file * v.den <= v.num * b_n
       /\ v.num * b_n <= 100 * (b_call.file + 1) * v.den
       /\ 0 <= v.num /\ v.num <= 100 * v.den

============================================================================
